---- MODULE Spec2Model ----
(***************************************************************************)
(* A model of jcvi's formats/blast.py: the BlastLine record (parsing and   *)
(* serialisation of one tabular BLAST hit, its swapped view), the two     *)
(* record stores and their iter_hits, the chaining of HSPs (get_distance,  *)
(* combine_HSPs, chain_HSPs, chain), the C-score (cscore) and the          *)
(* mate-pair report (report_pairs).                                        *)
(*                                                                         *)
(* Text is modelled as sequences of one-character strings, so that         *)
(* split(), int(), float() and str() are conversions that do real work.    *)
(* A float is an IEEE-754 double: a sign, an odd mantissa of at most 53    *)
(* bits and a binary exponent, every operation rounded to nearest, ties    *)
(* to even.  Mantissas and the numbers met while converting to and from    *)
(* decimal text are natural numbers of any size, kept as limb sequences.   *)
(*                                                                         *)
(* A value that is used more than once is bound by a quantifier or a set   *)
(* constructor over a one-element set, of which the element is chosen:     *)
(* CHOOSE it \in {e(x) : x \in {v}} : TRUE, so that it is computed once.   *)
(***************************************************************************)
EXTENDS Integers, Sequences, FiniteSets, TLC

(***************************************************************************)
(* Characters and text                                                     *)
(***************************************************************************)

\* The printable ASCII characters in code order, from the space (32) on; the
\* empty string holds the place of the backquote (96), which a TLA+ string
\* cannot hold.
Printable ==
    <<" ", "!", "\"", "#", "$", "%", "&", "'", "(", ")", "*", "+", ",", "-",
      ".", "/", "0", "1", "2", "3", "4", "5", "6", "7", "8", "9", ":", ";",
      "<", "=", ">", "?", "@", "A", "B", "C", "D", "E", "F", "G", "H", "I",
      "J", "K", "L", "M", "N", "O", "P", "Q", "R", "S", "T", "U", "V", "W",
      "X", "Y", "Z", "[", "\\", "]", "^", "_", "", "a", "b", "c", "d", "e",
      "f", "g", "h", "i", "j", "k", "l", "m", "n", "o", "p", "q", "r", "s",
      "t", "u", "v", "w", "x", "y", "z", "{", "|", "}", "~">>

\* The vertical tab (code 11): TLA+ has no escape for it, the string holds
\* the character itself.
VTab == ""

\* ord(c) for the ASCII characters a text can hold.
Codes ==
    [c \in {Printable[i] : i \in 1..Len(Printable)} \cup {"\t", "\n", VTab, "\f", "\r"} |->
       CASE c = "\t" -> 9 [] c = "\n" -> 10 [] c = VTab -> 11 [] c = "\f" -> 12
         [] c = "\r" -> 13
         [] OTHER -> 31 + (CHOOSE i \in 1..Len(Printable) : Printable[i] = c)]

Ord(c) == Codes[c]

Digits == {"0", "1", "2", "3", "4", "5", "6", "7", "8", "9"}

IsDigit(c) == c \in Digits

\* str.isspace() of Python 2 for one character: the blank, \t, \n, \v, \f
\* and \r.
IsSpace(c) == c \in {" ", "\t", "\n", VTab, "\f", "\r"}

DigitVal(c) == Codes[c] - 48

DigitChar(k) == <<"0", "1", "2", "3", "4", "5", "6", "7", "8", "9">>[k + 1]

\* c.lower() for an ASCII character.
Lower(c) == IF Codes[c] >= 65 /\ Codes[c] <= 90 THEN Printable[Codes[c] + 1] ELSE c

\* s[i:] and s[:i] of Python, 0 <= i <= len(s).
Drop(s, i) == SubSeq(s, i + 1, Len(s))

Take(s, i) == SubSeq(s, 1, i)

\* The least and the greatest element of a non-empty set of integers.
SetMin(S) == CHOOSE x \in S : \A y \in S : x <= y

SetMax(S) == CHOOSE x \in S : \A y \in S : x >= y

\* str.split(sep) for a one-character separator: the fields lie between
\* consecutive separators, the two ends of the text counting as separators.
\* cuts lists the positions of the separators in ascending order, between
\* 0 and Len(s) + 1.
Split(s, sep) ==
    CHOOSE it \in
        { [k \in 1..(Len(cuts) - 1) |-> SubSeq(s, cuts[k] + 1, cuts[k + 1] - 1)]
          : cuts \in { CHOOSE c \in
                         { <<0>> \o [k \in 1..Cardinality(at) |->
                                       CHOOSE i \in at : Cardinality({j \in at : j < i}) = k - 1]
                                 \o <<Len(s) + 1>>
                           : at \in {{i \in 1..Len(s) : s[i] = sep}} } : TRUE } } : TRUE

\* sep.join(parts): the parts from the i-th on.
RECURSIVE JoinFrom(_, _, _)
JoinFrom(parts, sep, i) ==
    IF i > Len(parts) THEN <<>>
    ELSE IF i = Len(parts) THEN parts[i]
    ELSE parts[i] \o <<sep>> \o (CHOOSE it \in {JoinFrom(parts, sep, j) : j \in {i + 1}} : TRUE)

Join(parts, sep) == (CHOOSE it \in {JoinFrom(v, sep, 1) : v \in {parts}} : TRUE)

\* str.strip(): the whitespace int() and float() ignore around a number.
StripValue(s) ==
    (CHOOSE it \in {IF idx = {} THEN <<>> ELSE SubSeq(s, SetMin(idx), SetMax(idx)) :
           idx \in {{i \in 1..Len(s) : ~IsSpace(s[i])}}} : TRUE)

Strip(text) == (CHOOSE it \in {StripValue(s) : s \in {text}} : TRUE)

\* s.lstrip().
LStrip(s) ==
    (CHOOSE it \in {IF idx = {} THEN <<>> ELSE Drop(s, SetMin(idx) - 1) :
           idx \in {{i \in 1..Len(s) : ~IsSpace(s[i])}}} : TRUE)

(***************************************************************************)
(* Integers as text                                                        *)
(***************************************************************************)

Abs(x) == IF x < 0 THEN -x ELSE x

Min(x, y) == IF x < y THEN x ELSE y

Max(x, y) == IF x > y THEN x ELSE y

RECURSIVE Pow10(_)
Pow10(k) == IF k <= 0 THEN 1 ELSE 10 * (CHOOSE it \in {Pow10(j) : j \in {k - 1}} : TRUE)

\* The value of a run of digits.
RECURSIVE DigitsFrom(_, _, _)
DigitsFrom(s, i, acc) ==
    IF i > Len(s) THEN acc
    ELSE (CHOOSE it \in {DigitsFrom(s, j, a) : j \in {i + 1}, a \in {10 * acc + DigitVal(s[i])}} : TRUE)

DigitsVal(s) == (CHOOSE it \in {DigitsFrom(v, 1, 0) : v \in {s}} : TRUE)

\* The value of the digits lo..hi of a list of digits (numbers 0..9).
RECURSIVE DigitsNum(_, _, _)
DigitsNum(ds, lo, hi) ==
    IF lo > hi THEN 0
    ELSE 10 * (CHOOSE it \in {DigitsNum(ds, lo, j) : j \in {hi - 1}} : TRUE) + ds[hi]

AllDigits(s) == s # <<>> /\ \A i \in 1..Len(s) : IsDigit(s[i])

\* The sign a text starts with, and the text after it.
SignOf(s) == IF s # <<>> /\ s[1] = "-" THEN -1 ELSE 1

Unsigned(s) == IF s # <<>> /\ s[1] \in {"-", "+"} THEN Tail(s) ELSE s

\* int() of a stripped text s: an optional sign, blanks (strtoul skips them
\* once more after the sign), digits.
IntOfStripped(s) ==
    (CHOOSE it \in {IF AllDigits(u) THEN [ok |-> TRUE, v |-> SignOf(s) * DigitsVal(u)]
         ELSE [ok |-> FALSE, v |-> 0] : u \in {LStrip(Unsigned(s))}} : TRUE)

\* int(text): [ok |-> FALSE] stands for ValueError.
PyInt(text) == (CHOOSE it \in {IntOfStripped(s) : s \in {Strip(text)}} : TRUE)

RECURSIVE NatStr(_)
NatStr(k) ==
    IF k < 10 THEN <<DigitChar(k)>>
    ELSE Append((CHOOSE it \in {NatStr(j) : j \in {k \div 10}} : TRUE), DigitChar(k % 10))

\* str(k) for an int k.
StrInt(k) == IF k < 0 THEN <<"-">> \o NatStr(-k) ELSE NatStr(k)

(***************************************************************************)
(* Natural numbers of any size: the limbs of a number, least significant   *)
(* first, without a zero at the high end (zero is the empty sequence).     *)
(***************************************************************************)

LimbBits == 14

Base == 16384

\* The number of bits of a limb k.
IntBits(k) ==
    IF k < 128
    THEN (IF k < 8 THEN (IF k < 2 THEN k ELSE IF k < 4 THEN 2 ELSE 3)
          ELSE IF k < 16 THEN 4 ELSE IF k < 32 THEN 5 ELSE IF k < 64 THEN 6 ELSE 7)
    ELSE IF k < 2048
    THEN (IF k < 256 THEN 8 ELSE IF k < 512 THEN 9 ELSE IF k < 1024 THEN 10 ELSE 11)
    ELSE IF k < 4096 THEN 12 ELSE IF k < 8192 THEN 13 ELSE 14

Limb(a, i) == IF i <= Len(a) THEN a[i] ELSE 0

\* The middle of a range of positions.
Mid(lo, hi) == (lo + hi) \div 2

BNorm(a) ==
    (CHOOSE it \in {Take(a, IF nz = {} THEN 0 ELSE SetMax(nz)) :
           nz \in {{i \in 1..Len(a) : a[i] # 0}}} : TRUE)

\* The number k, 0 <= k < 2^31.
BFromInt(k) == BNorm(<<k % Base, (k \div Base) % Base, k \div (Base * Base)>>)

BLen(a) == IF a = <<>> THEN 0 ELSE LimbBits * (Len(a) - 1) + IntBits(a[Len(a)])

\* -1, 0 or 1 as a < b, a = b or a > b.
BCmp(a, b) ==
    IF Len(a) # Len(b) THEN (IF Len(a) < Len(b) THEN -1 ELSE 1)
    ELSE (CHOOSE it \in {IF diff = {} THEN 0
              ELSE IF a[SetMax(diff)] < b[SetMax(diff)] THEN -1 ELSE 1 :
                diff \in {{i \in 1..Len(a) : a[i] # b[i]}}} : TRUE)

\* The limbs lo..hi of a + b + carry at limb lo, and the carry out of limb
\* hi; the range is halved so that the recursion stays shallow.
RECURSIVE BAddRange(_, _, _, _, _)
BAddRange(a, b, lo, hi, carry) ==
    IF lo = hi
    THEN (CHOOSE it \in {[d |-> <<t % Base>>, c |-> t \div Base] :
                t \in {Limb(a, lo) + Limb(b, lo) + carry}} : TRUE)
    ELSE (CHOOSE it \in { (CHOOSE it \in {[d |-> l.d \o h.d, c |-> h.c] :
                      h \in {BAddRange(a, b, Mid(lo, hi) + 1, hi, l.c)}} : TRUE)
               : l \in {BAddRange(a, b, lo, Mid(lo, hi), carry)} } : TRUE)

BAdd(a, b) ==
    IF a = <<>> THEN b
    ELSE IF b = <<>> THEN a
    ELSE (CHOOSE it \in {IF r.c = 0 THEN r.d ELSE Append(r.d, r.c) :
                r \in {BAddRange(a, b, 1, Max(Len(a), Len(b)), 0)}} : TRUE)

\* The limbs lo..hi of a - b - borrow at limb lo, and the borrow out of
\* limb hi.
RECURSIVE BSubRange(_, _, _, _, _)
BSubRange(a, b, lo, hi, borrow) ==
    IF lo = hi
    THEN (CHOOSE it \in {[d |-> <<IF t < 0 THEN t + Base ELSE t>>, c |-> IF t < 0 THEN 1 ELSE 0] :
                t \in {Limb(a, lo) - Limb(b, lo) - borrow}} : TRUE)
    ELSE (CHOOSE it \in { (CHOOSE it \in {[d |-> l.d \o h.d, c |-> h.c] :
                      h \in {BSubRange(a, b, Mid(lo, hi) + 1, hi, l.c)}} : TRUE)
               : l \in {BSubRange(a, b, lo, Mid(lo, hi), borrow)} } : TRUE)

\* a - b for a >= b.
BSub(a, b) ==
    IF b = <<>> THEN a ELSE BNorm(BSubRange(a, b, 1, Len(a), 0).d)

\* The limbs lo..hi of a * k + carry at limb lo, and the carry out.
RECURSIVE BMulRange(_, _, _, _, _)
BMulRange(a, k, lo, hi, carry) ==
    IF lo = hi
    THEN (CHOOSE it \in {[d |-> <<t % Base>>, c |-> t \div Base] : t \in {a[lo] * k + carry}} : TRUE)
    ELSE (CHOOSE it \in { (CHOOSE it \in {[d |-> l.d \o h.d, c |-> h.c] :
                      h \in {BMulRange(a, k, Mid(lo, hi) + 1, hi, l.c)}} : TRUE)
               : l \in {BMulRange(a, k, lo, Mid(lo, hi), carry)} } : TRUE)

\* a * k for 0 <= k <= 2^16.
BMulSmall(a, k) ==
    IF k = 0 \/ a = <<>> THEN <<>>
    ELSE IF k = 1 THEN a
    ELSE (CHOOSE it \in {r.d \o BNorm(<<r.c % Base, r.c \div Base>>) :
                r \in {BMulRange(a, k, 1, Len(a), 0)}} : TRUE)

\* The limbs lo..hi of the quotient of a by d, from limb hi down, r being
\* the remainder that comes from above; and the remainder left.
RECURSIVE BDivRange(_, _, _, _, _)
BDivRange(a, d, lo, hi, r) ==
    IF lo = hi
    THEN (CHOOSE it \in {[q |-> <<t \div d>>, r |-> t % d] : t \in {r * Base + a[lo]}} : TRUE)
    ELSE (CHOOSE it \in { (CHOOSE it \in {[q |-> l.q \o h.q, r |-> l.r] :
                      l \in {BDivRange(a, d, lo, Mid(lo, hi), h.r)}} : TRUE)
               : h \in {BDivRange(a, d, Mid(lo, hi) + 1, hi, r)} } : TRUE)

\* The quotient and the remainder of a by d, 1 <= d <= 2^17.
BDivSmall(a, d) ==
    IF a = <<>> THEN [q |-> <<>>, r |-> 0]
    ELSE IF d = 1 THEN [q |-> a, r |-> 0]
    ELSE (CHOOSE it \in {[q |-> BNorm(x.q), r |-> x.r] : x \in {BDivRange(a, d, 1, Len(a), 0)}} : TRUE)

\* a * 2^n and the whole part of a / 2^n.
BShl(a, n) ==
    IF a = <<>> THEN <<>>
    ELSE [i \in 1..(n \div LimbBits) |-> 0] \o BMulSmall(a, 2^(n % LimbBits))

BShr(a, n) ==
    IF n \div LimbBits >= Len(a) THEN <<>>
    ELSE BDivSmall(Drop(a, n \div LimbBits), 2^(n % LimbBits)).q

\* Bit i of a (bit 0 is the lowest), and whether the n lowest bits are zero.
BBit(a, i) == (Limb(a, i \div LimbBits + 1) \div 2^(i % LimbBits)) % 2

BLowZero(a, n) ==
    /\ \A i \in 1..Min(Len(a), n \div LimbBits) : a[i] = 0
    /\ Limb(a, n \div LimbBits + 1) % 2^(n % LimbBits) = 0

\* a * b, limb by limb of b.
RECURSIVE BMulFrom(_, _, _, _)
BMulFrom(a, b, i, acc) ==
    IF i > Len(b) THEN acc
    ELSE (CHOOSE it \in {BMulFrom(a, b, j, r) :
                j \in {i + 1},
                r \in {BAdd(acc, [k \in 1..(i - 1) |-> 0] \o BMulSmall(a, b[i]))}} : TRUE)

BMul(a, b) ==
    IF a = <<>> \/ b = <<>> THEN <<>>
    ELSE (CHOOSE it \in {BMulFrom(x, y, 1, <<>>) : x \in {a}, y \in {b}} : TRUE)

\* Long division of a by any d > 0 over the bits hi down to lo of a: q and
\* r are the quotient and the remainder of the bits above hi.
RECURSIVE BDivBits(_, _, _, _, _, _)
BDivBits(a, d, lo, hi, q, r) ==
    IF lo = hi
    THEN (CHOOSE it \in { IF BCmp(r2, d) >= 0
               THEN [q |-> BAdd(BMulSmall(q, 2), <<1>>), r |-> BSub(r2, d)]
               ELSE [q |-> BMulSmall(q, 2), r |-> r2]
               : r2 \in {IF BBit(a, lo) = 1 THEN BAdd(BMulSmall(r, 2), <<1>>)
                         ELSE BMulSmall(r, 2)} } : TRUE)
    ELSE (CHOOSE it \in { (CHOOSE it \in {BDivBits(a, d, lo, mid, h.q, h.r) :
                      h \in {BDivBits(a, d, mid + 1, hi, q, r)}} : TRUE)
               : mid \in {(lo + hi) \div 2} } : TRUE)

BDivMod(a, d) ==
    IF Len(d) = 1 \/ (Len(d) = 2 /\ d[2] < 8)
    THEN (CHOOSE it \in {[q |-> x.q, r |-> BFromInt(x.r)] :
                x \in {BDivSmall(a, Limb(d, 1) + Base * Limb(d, 2))}} : TRUE)
    ELSE IF a = <<>> THEN [q |-> <<>>, r |-> <<>>]
    ELSE (CHOOSE it \in {BDivBits(x, y, 0, BLen(x) - 1, <<>>, <<>>) : x \in {a}, y \in {d}} : TRUE)

\* a * 10^k and a * 5^k, the exponent split (for 10^k between factors of
\* 10^4) until one small factor is left.
RECURSIVE BTimesPow10(_, _)
BTimesPow10(a, k) ==
    IF k <= 4 THEN BMulSmall(a, Pow10(k))
    ELSE (CHOOSE it \in {BTimesPow10(x, k - 4 * ((k + 4) \div 8)) :
                x \in {BTimesPow10(a, 4 * ((k + 4) \div 8))}} : TRUE)

RECURSIVE BTimesPow5(_, _)
BTimesPow5(a, k) ==
    IF k <= 6 THEN BMulSmall(a, 5^k)
    ELSE (CHOOSE it \in {BTimesPow5(x, k - k \div 2) : x \in {BTimesPow5(a, k \div 2)}} : TRUE)

\* The whole part of a / 5^k, and whether anything was cut off.
RECURSIVE BOverPow5(_, _)
BOverPow5(a, k) ==
    IF k <= 7 THEN (CHOOSE it \in {[q |-> x.q, cut |-> x.r # 0] : x \in {BDivSmall(a, 5^k)}} : TRUE)
    ELSE (CHOOSE it \in { (CHOOSE it \in {[q |-> y.q, cut |-> x.cut \/ y.cut] :
                      y \in {BOverPow5(x.q, k - k \div 2)}} : TRUE)
               : x \in {BOverPow5(a, k \div 2)} } : TRUE)

\* The number the decimal digits lo..hi of ds (numbers 0..9) denote.
RECURSIVE BFromDigits(_, _, _)
BFromDigits(ds, lo, hi) ==
    IF hi - lo < 4 THEN BFromInt(DigitsNum(ds, lo, hi))
    ELSE (CHOOSE it \in {BAdd(BTimesPow10(BFromDigits(ds, lo, mid), hi - mid),
                   BFromDigits(ds, mid + 1, hi)) : mid \in {(lo + hi) \div 2}} : TRUE)

\* The n lowest groups of four decimal digits of a, and what is left of a
\* above them.
RECURSIVE BGroups(_, _)
BGroups(a, n) ==
    IF n = 1
    THEN (CHOOSE it \in {[q |-> x.q,
               ds |-> <<x.r \div 1000, (x.r \div 100) % 10, (x.r \div 10) % 10, x.r % 10>>] :
                x \in {BDivSmall(a, 10000)}} : TRUE)
    ELSE (CHOOSE it \in { (CHOOSE it \in {[q |-> h.q, ds |-> h.ds \o l.ds] :
                      h \in {BGroups(l.q, n - n \div 2)}} : TRUE)
               : l \in {BGroups(a, n \div 2)} } : TRUE)

\* The decimal digits of a > 0: enough groups for its bits (2^40 < 10^13),
\* without the zeros in front.
BDigits(a) ==
    (CHOOSE it \in {Drop(ds, SetMin({i \in 1..Len(ds) : ds[i] # 0}) - 1) :
           ds \in {BGroups(a, (BLen(a) * 13) \div 160 + 1).ds}} : TRUE)

(***************************************************************************)
(* Floats: IEEE-754 doubles.  A finite double is s * m * 2^e with s = 1 or *)
(* -1 and m odd below 2^53 (zero: m empty, e = 0), so that equal values    *)
(* are equal records; k tells a finite value from an infinity and a nan.   *)
(***************************************************************************)

\* Bits of a mantissa, the exponent of the lowest subnormal bit, and the
\* exponent no finite double reaches.
MantBits == 53

MinExp == -1074

MaxExp == 1024

Zero(s) == [k |-> "fin", s |-> s, m |-> <<>>, e |-> 0]

Inf(s) == [k |-> "inf", s |-> s, m |-> <<>>, e |-> 0]

NaN == [k |-> "nan", s |-> 1, m |-> <<>>, e |-> 0]

FZero == Zero(1)

IsZero(x) == x.k = "fin" /\ x.m = <<>>

\* The trailing zero bits of a limb k > 0.
RECURSIVE LowBits(_)
LowBits(k) == IF k % 2 = 1 THEN 0 ELSE 1 + (CHOOSE it \in {LowBits(j) : j \in {k \div 2}} : TRUE)

\* The double s * a * 2^e for a of at most 53 bits: the mantissa made odd.
Canon(s, a, e) ==
    IF a = <<>> THEN Zero(s)
    ELSE IF a[1] % 2 = 1 THEN [k |-> "fin", s |-> s, m |-> a, e |-> e]
    ELSE (CHOOSE it \in { (CHOOSE it \in {[k |-> "fin", s |-> s, m |-> BShr(a, tz), e |-> e + tz] :
                      tz \in {LimbBits * (z - 1) + LowBits(a[z])}} : TRUE)
               : z \in {SetMin({i \in 1..Len(a) : a[i] # 0})} } : TRUE)

\* The double nearest to s * v, ties to even, for a * 2^e <= v < (a+1) * 2^e
\* with v = a * 2^e unless more is set (and then a has more than 53 bits).
RoundDouble(s, a, e, more) ==
    (CHOOSE it \in { (CHOOSE it \in { IF drop <= 0
                THEN (IF len + e > MaxExp THEN Inf(s) ELSE Canon(s, a, e))
                ELSE (CHOOSE it \in { IF BLen(q) + e + drop > MaxExp THEN Inf(s)
                           ELSE Canon(s, q, e + drop)
                           : q \in {IF BBit(a, drop - 1) = 1
                                       /\ (more \/ ~BLowZero(a, drop - 1) \/ BBit(a, drop) = 1)
                                    THEN BAdd(BShr(a, drop), <<1>>)
                                    ELSE BShr(a, drop)} } : TRUE)
                : drop \in {Max(len - MantBits, MinExp - e)} } : TRUE)
          : len \in {BLen(a)} } : TRUE)

\* float(k) for an int k.
FromInt(k) == Canon(IF k < 0 THEN -1 ELSE 1, BFromInt(Abs(k)), 0)

\* x is a whole number below 2^28 in size, and the int it is then.  Sums
\* and products of two such numbers below 2^14 are whole numbers below 2^53,
\* which a double holds exactly.
IsSmall(x) ==
    /\ x.k = "fin" /\ x.e >= 0 /\ Len(x.m) <= 2
    /\ LimbBits * (Len(x.m) - 1) + x.e <= 14

SmallInt(x) == IF x.m = <<>> THEN 0 ELSE x.s * (Limb(x.m, 1) + Base * Limb(x.m, 2)) * 2^x.e

FNeg(x) == IF x.k = "nan" THEN x ELSE [x EXCEPT !.s = -x.s]

\* The exponent of the top bit of a finite x # 0, plus one.
Top(x) == BLen(x.m) + x.e

\* x + y for finite x, y other than zero.
AddFinite(x, y) ==
    IF x.e - y.e > 2 * MantBits + 8 THEN x
    ELSE IF y.e - x.e > 2 * MantBits + 8 THEN y
    ELSE (CHOOSE it \in { (CHOOSE it \in { (CHOOSE it \in { IF x.s = y.s THEN RoundDouble(x.s, BAdd(a, b), e0, FALSE)
                           ELSE IF c = 0 THEN FZero
                           ELSE IF c > 0 THEN RoundDouble(x.s, BSub(a, b), e0, FALSE)
                           ELSE RoundDouble(y.s, BSub(b, a), e0, FALSE)
                           : c \in {BCmp(a, b)} } : TRUE)
                     : a \in {BShl(x.m, x.e - e0)}, b \in {BShl(y.m, y.e - e0)} } : TRUE)
               : e0 \in {Min(x.e, y.e)} } : TRUE)

FAdd(x, y) ==
    IF IsSmall(x) /\ IsSmall(y) /\ ~IsZero(x) /\ ~IsZero(y) THEN FromInt(SmallInt(x) + SmallInt(y))
    ELSE IF x.k = "nan" \/ y.k = "nan" THEN NaN
    ELSE IF x.k = "inf" THEN (IF y.k = "inf" /\ y.s # x.s THEN NaN ELSE x)
    ELSE IF y.k = "inf" THEN y
    ELSE IF IsZero(x) THEN (IF IsZero(y) /\ x.s # y.s THEN FZero ELSE y)
    ELSE IF IsZero(y) THEN x
    ELSE AddFinite(x, y)

FSub(x, y) == FAdd(x, FNeg(y))

FMul(x, y) ==
    IF x.k = "nan" \/ y.k = "nan" THEN NaN
    ELSE IF x.k = "inf" \/ y.k = "inf"
    THEN (IF IsZero(x) \/ IsZero(y) THEN NaN ELSE Inf(x.s * y.s))
    ELSE IF IsZero(x) \/ IsZero(y) THEN Zero(x.s * y.s)
    ELSE RoundDouble(x.s * y.s, BMul(x.m, y.m), x.e + y.e, FALSE)

\* x / y for finite x, y other than zero: the quotient of the mantissas
\* to 55 bits or more, and whether a remainder is left.
DivFinite(x, y) ==
    (CHOOSE it \in { (CHOOSE it \in {RoundDouble(x.s * y.s, d.q, x.e - y.e - t, d.r # <<>>) :
                 d \in {BDivMod(BShl(x.m, t), y.m)}} : TRUE)
          : t \in {Max(0, MantBits + 2 + BLen(y.m) - BLen(x.m))} } : TRUE)

\* x / y, y # 0 (Python raises ZeroDivisionError for y = 0: callers test it).
FDiv(x, y) ==
    IF x.k = "nan" \/ y.k = "nan" THEN NaN
    ELSE IF x.k = "inf" THEN (IF y.k = "inf" THEN NaN ELSE Inf(x.s * y.s))
    ELSE IF y.k = "inf" \/ IsZero(x) THEN Zero(x.s * y.s)
    ELSE IF y.m = <<1>> THEN RoundDouble(x.s * y.s, x.m, x.e - y.e, FALSE)
    ELSE DivFinite(x, y)

\* The whole part of the square root of a > 0: Newton's steps down from x,
\* a power of two that is not below the root.
RECURSIVE BSqrtFrom(_, _)
BSqrtFrom(a, x) ==
    (CHOOSE it \in {IF BCmp(y, x) >= 0 THEN x ELSE BSqrtFrom(a, y)
         : y \in {BShr(BAdd(x, BDivMod(a, x).q), 1)}} : TRUE)

BSqrt(a) == IF a = <<>> THEN <<>> ELSE BSqrtFrom(a, BShl(<<1>>, (BLen(a) + 1) \div 2))

\* The greatest k in lo..hi with k * k <= n, and the whole part of the
\* square root of n, 0 <= n < 2^28.
RECURSIVE RootBetween(_, _, _)
RootBetween(n, lo, hi) ==
    IF lo = hi THEN lo
    ELSE (CHOOSE it \in {IF mid * mid <= n THEN RootBetween(n, mid, hi) ELSE RootBetween(n, lo, mid - 1)
              : mid \in {(lo + hi + 1) \div 2}} : TRUE)

Root(n) == RootBetween(n, 0, Base)

IsSquare(n) == (CHOOSE it \in {r * r = n : r \in {Root(n)}} : TRUE)

\* sqrt(x): a mantissa below 2^28 that is a square, at an even exponent, has
\* its exact root; else the mantissa is shifted to 110 bits or more and to an even
\* exponent, and its root (55 bits or more) is rounded, with whether it is
\* the exact root.  The root of a negative number is a nan.
FSqrt(x) ==
    IF x.k = "nan" THEN NaN
    ELSE IF IsZero(x) THEN x
    ELSE IF x.s = -1 THEN NaN
    ELSE IF x.k = "inf" THEN x
    ELSE IF Len(x.m) <= 2 /\ x.e % 2 = 0 /\ IsSquare(Limb(x.m, 1) + Base * Limb(x.m, 2))
    THEN [k |-> "fin", s |-> 1, m |-> BFromInt(Root(Limb(x.m, 1) + Base * Limb(x.m, 2))),
          e |-> x.e \div 2]
    ELSE (CHOOSE it \in { (CHOOSE it \in { (CHOOSE it \in {RoundDouble(1, q, (x.e - t) \div 2, BCmp(BMul(q, q), a) # 0)
                          : q \in {BSqrt(a)}} : TRUE)
                     : a \in {BShl(x.m, t)} } : TRUE)
               : t \in {(CHOOSE it \in {u + ((x.e - u) % 2)
                             : u \in {Max(0, 2 * MantBits + 4 - BLen(x.m))}} : TRUE)} } : TRUE)

\* int(x) for a finite x below 2^31 in size: the whole part, towards zero.
FInt(x) ==
    IF IsZero(x) THEN 0
    ELSE (CHOOSE it \in {x.s * (Limb(a, 1) + Base * Limb(a, 2) + Base * Base * Limb(a, 3))
              : a \in {IF x.e >= 0 THEN BShl(x.m, x.e) ELSE BShr(x.m, -x.e)}} : TRUE)

\* |x| < |y| for x, y other than nan and zero.
MagLess(x, y) ==
    IF x.k = "inf" THEN FALSE
    ELSE IF y.k = "inf" THEN TRUE
    ELSE IF Top(x) # Top(y) THEN Top(x) < Top(y)
    ELSE (CHOOSE it \in {BCmp(BShl(x.m, x.e - e0), BShl(y.m, y.e - e0)) < 0 :
                e0 \in {Min(x.e, y.e)}} : TRUE)

\* -1, 0 or 1 as x is negative, zero or positive.
Sgn(x) == IF IsZero(x) THEN 0 ELSE x.s

\* x < y and x == y: false for a nan, and -0.0 equals 0.0.
FLess(x, y) ==
    IF IsSmall(x) /\ IsSmall(y) THEN SmallInt(x) < SmallInt(y)
    ELSE IF x.k = "nan" \/ y.k = "nan" THEN FALSE
    ELSE IF Sgn(x) # Sgn(y) THEN Sgn(x) < Sgn(y)
    ELSE IF Sgn(x) = 0 THEN FALSE
    ELSE IF x.s = 1 THEN MagLess(x, y) ELSE MagLess(y, x)

FEq(x, y) == x.k # "nan" /\ y.k # "nan" /\ (x = y \/ (IsZero(x) /\ IsZero(y)))

\* max(x, y): the first argument unless the second is greater.
FMax(x, y) == IF FLess(x, y) THEN y ELSE x

\* The positions of the character c in s.
Places(s, c) == {i \in 1..Len(s) : s[i] = c}

\* The double nearest to s * 0.d1d2..dn * 10^p, d1 # 0 and dn # 0.
FloatOfDigits(s, ds, p) ==
    IF p > 310 THEN Inf(s)
    ELSE IF p < -330 THEN Zero(s)
    ELSE IF p >= Len(ds)
    THEN RoundDouble(s, BTimesPow10(BFromDigits(ds, 1, Len(ds)), p - Len(ds)), 0, FALSE)
    ELSE (CHOOSE it \in { (CHOOSE it \in { (CHOOSE it \in {RoundDouble(s, d.q, -k - t, d.cut) :
                            d \in {BOverPow5(BShl(a, t), k)}} : TRUE)
                     : t \in {Max(0, MantBits + 3 + (7 * k) \div 3 - BLen(a))} } : TRUE)
               : a \in {BFromDigits(ds, 1, Len(ds))}, k \in {Len(ds) - p} } : TRUE)

\* The digits of a run of digit characters without the zeros at both ends.
Significant(digs) ==
    (CHOOSE it \in {IF nz = {} THEN [ds |-> <<>>, lead |-> Len(digs)]
         ELSE [ds |-> [i \in 1..(SetMax(nz) - SetMin(nz) + 1) |->
                         DigitVal(digs[SetMin(nz) + i - 1])],
               lead |-> SetMin(nz) - 1] :
           nz \in {{i \in 1..Len(digs) : digs[i] # "0"}}} : TRUE)

\* The exponent a literal ends with: [sign] digits, nothing else.  A value
\* beyond six digits is as good as 999999.
ExponentOf(expo) ==
    (CHOOSE it \in {IF ~AllDigits(u) THEN [ok |-> FALSE, v |-> 0]
         ELSE [ok |-> TRUE,
               v  |-> SignOf(expo) * (IF Len(u) - Significant(u).lead > 6 THEN 999999
                                      ELSE DigitsVal(u))] :
           u \in {Unsigned(expo)}} : TRUE)

\* float() of an unsigned decimal literal: mant, the mantissa text, and
\* expo, the text after the "e" ("0" when there is none).
FloatOfParts(sign, mant, expo) ==
    (CHOOSE it \in { (CHOOSE it \in { IF AllDigits(digs) /\ ex.ok
                THEN (CHOOSE it \in { IF sg.ds = <<>> THEN [ok |-> TRUE, v |-> Zero(sign)]
                           ELSE [ok |-> TRUE,
                                 v  |-> FloatOfDigits(sign, sg.ds,
                                           ex.v + (IF dot = 0 THEN Len(digs) ELSE dot - 1)
                                                - sg.lead)]
                           : sg \in {Significant(digs)} } : TRUE)
                ELSE [ok |-> FALSE, v |-> FZero]
                : digs \in {IF dot = 0 THEN mant
                            ELSE Take(mant, dot - 1) \o Drop(mant, dot)},
                  ex \in {ExponentOf(expo)} } : TRUE)
          : dot \in {IF Places(mant, ".") = {} THEN 0 ELSE SetMin(Places(mant, "."))} } : TRUE)

FloatOfStripped(s) ==
    (CHOOSE it \in { (CHOOSE it \in { (CHOOSE it \in { IF low \in {<<"i", "n", "f">>, <<"i", "n", "f", "i", "n", "i", "t", "y">>}
                THEN [ok |-> TRUE, v |-> Inf(SignOf(s))]
                ELSE IF low = <<"n", "a", "n">> THEN [ok |-> TRUE, v |-> NaN]
                ELSE IF e = 0 THEN FloatOfParts(SignOf(s), u, <<"0">>)
                ELSE FloatOfParts(SignOf(s), Take(u, e - 1), Drop(u, e))
                : e \in {IF Places(low, "e") = {} THEN 0 ELSE SetMin(Places(low, "e"))} } : TRUE)
          : low \in {[i \in 1..Len(u) |-> Lower(u[i])]} } : TRUE) : u \in {Unsigned(s)} } : TRUE)

\* float(text): [sign] digits [. digits] [e|E [sign] digits] (either digit
\* run of the mantissa may be empty, not both), or [sign] inf, infinity or
\* nan in any case.  [ok |-> FALSE] stands for ValueError.
PyFloat(text) == (CHOOSE it \in {FloatOfStripped(s) : s \in {Strip(text)}} : TRUE)

(***************************************************************************)
(* str(float) of Python 2: "%.12g", with ".0" added to a result that has   *)
(* neither a point nor an exponent; and "{0:.2f}".format(float).           *)
(***************************************************************************)

\* Significant digits str() keeps.
StrPrecision == 12

\* The decimal expansion of a finite x # 0 down to the j-th place after the
\* point: the digits ds of the whole part of |x| * 10^j (none when that is
\* zero), the number p of them before the point, and whether |x| has more
\* than them.
Decimal(x, j) ==
    IF x.e >= 0
    THEN (CHOOSE it \in {[ds |-> ds, p |-> Len(ds), more |-> FALSE] : ds \in {BDigits(BShl(x.m, x.e))}} : TRUE)
    ELSE (CHOOSE it \in { (CHOOSE it \in {[ds |-> ds, p |-> Len(ds) - j, more |-> ~BLowZero(n, -x.e)] :
                      ds \in {(CHOOSE it \in {IF q = <<>> THEN <<>> ELSE BDigits(q) :
                                     q \in {BShr(n, -x.e)}} : TRUE)}} : TRUE)
               : n \in {BTimesPow10(x.m, j)} } : TRUE)

\* Places after the point that hold the first StrPrecision + 1 significant
\* digits of a finite x # 0 (2^1000 > 10^301).
PlacesFor(x) ==
    StrPrecision + 2 + Max(0, ((1 - Top(x)) * 302) \div 1000 + 1)

\* The digit list plus one in its last place; carry tells an overflow
\* (all nines), and then the digits are all zero.
RECURSIVE Increment(_)
Increment(ds) ==
    IF ds = <<>> THEN [digits |-> <<>>, carry |-> TRUE]
    ELSE IF ds[Len(ds)] < 9
    THEN [digits |-> [ds EXCEPT ![Len(ds)] = @ + 1], carry |-> FALSE]
    ELSE (CHOOSE it \in {[digits |-> Append(r.digits, 0), carry |-> r.carry] :
                r \in {(CHOOSE it \in {Increment(init) : init \in {Take(ds, Len(ds) - 1)}} : TRUE)}} : TRUE)

\* The digits without their trailing zeros (one digit is kept).
StripZeros(ds) ==
    (CHOOSE it \in {Take(ds, SetMax(keep)) : keep \in {{1} \cup {i \in 1..Len(ds) : ds[i] # 0}}} : TRUE)

DigitText(ds) == [i \in 1..Len(ds) |-> DigitChar(ds[i])]

Zeros(k) == [i \in 1..k |-> "0"]

\* The first n digits of the expansion d (n >= 0), rounded to nearest on
\* all that follows them, ties to even.
Rounded(d, n) ==
    IF Len(d.ds) <= n
    THEN [digits |-> d.ds \o [i \in 1..(n - Len(d.ds)) |-> 0], carry |-> FALSE]
    ELSE IF \/ d.ds[n + 1] > 5
            \/ /\ d.ds[n + 1] = 5
               /\ \/ d.more
                  \/ \E i \in (n + 2)..Len(d.ds) : d.ds[i] # 0
                  \/ n > 0 /\ d.ds[n] % 2 = 1
    THEN Increment(Take(d.ds, n))
    ELSE [digits |-> Take(d.ds, n), carry |-> FALSE]

\* The significant digits (trailing zeros removed) and the decimal exponent
\* of the first of them, for the expansion d rounded to StrPrecision digits.
Sig(d) ==
    (CHOOSE it \in {IF r.carry THEN [digits |-> <<1>>, exp |-> d.p]
         ELSE [digits |-> StripZeros(r.digits), exp |-> d.p - 1] :
           r \in {Rounded(d, StrPrecision)}} : TRUE)

\* The text of the digits ds (as characters) with decimal exponent x.
FormatG(ds, x) ==
    IF x < -4 \/ x >= StrPrecision - 1
    THEN <<ds[1]>> \o (IF Len(ds) > 1 THEN <<".">> \o Drop(ds, 1) ELSE <<>>)
         \o <<"e", IF x < 0 THEN "-" ELSE "+">>
         \o (IF Abs(x) < 10 THEN <<"0">> ELSE <<>>) \o NatStr(Abs(x))
    ELSE IF x < 0 THEN <<"0", ".">> \o Zeros(-x - 1) \o ds
    ELSE IF Len(ds) <= x + 1 THEN ds \o Zeros(x + 1 - Len(ds)) \o <<".", "0">>
    ELSE Take(ds, x + 1) \o <<".">> \o Drop(ds, x + 1)

SignText(x) == IF x.s < 0 THEN <<"-">> ELSE <<>>

\* str(x) for a float x.
StrFloat(x) ==
    IF x.k = "nan" THEN <<"n", "a", "n">>
    ELSE IF x.k = "inf" THEN SignText(x) \o <<"i", "n", "f">>
    ELSE IF IsZero(x) THEN SignText(x) \o <<"0", ".", "0">>
    ELSE (CHOOSE it \in { (CHOOSE it \in { SignText(x) \o FormatG(ds, sg.exp)
                     : ds \in {DigitText(sg.digits)} } : TRUE)
               : sg \in {Sig(Decimal(x, PlacesFor(x)))} } : TRUE)

\* The digits of a fixed-point text, two of them after the point: at least
\* three, the expansion d (to three places or more) rounded after p + 2
\* digits.
Hundredths(d) ==
    IF d.ds = <<>> THEN <<0, 0, 0>>
    ELSE (CHOOSE it \in { (CHOOSE it \in {[i \in 1..(3 - Len(all)) |-> 0] \o all :
                      all \in {IF r.carry THEN <<1>> \o r.digits ELSE r.digits}} : TRUE)
               : r \in {Rounded(d, d.p + 2)} } : TRUE)

\* "{0:.2f}".format(x).
Format2f(x) ==
    IF x.k = "nan" THEN <<"n", "a", "n">>
    ELSE IF x.k = "inf" THEN SignText(x) \o <<"i", "n", "f">>
    ELSE (CHOOSE it \in { SignText(x) \o Take(t, Len(t) - 2) \o <<".">> \o Drop(t, Len(t) - 2)
               : t \in {DigitText(IF IsZero(x) THEN <<0, 0, 0>>
                                  ELSE Hundredths(Decimal(x, 3)))} } : TRUE)

(***************************************************************************)
(* BlastLine                                                               *)
(***************************************************************************)

\* The value a failed construction leaves behind: no object.
NoLine ==
    [query |-> <<>>, subject |-> <<>>, pctid |-> FZero, hitlen |-> 0,
     nmismatch |-> 0, ngaps |-> 0, qstart |-> 0, qstop |-> 0, sstart |-> 0,
     sstop |-> 0, evalue |-> FZero, score |-> FZero, orientation |-> "?"]

\* The columns __init__ reads, and which it converts how (1-based).
NumColumns == 12

IntColumns == {4, 5, 6, 7, 8, 9, 10}

FloatColumns == {3, 11, 12}

\* The conversion __init__ applies to column i: int(), float(), or none for
\* the two names.
Converted(i, t) ==
    IF i \in IntColumns THEN PyInt(t)
    ELSE IF i \in FloatColumns THEN PyFloat(t)
    ELSE [ok |-> TRUE, v |-> t]

\* Whether the conversion __init__ applies to column i succeeds.
Converts(i, t) == Converted(i, t).ok

\* An __init__ that puts the query coordinates in order too.
BlastLine_fields_both(vals, s1, s2) ==
    [query |-> vals[1].v, subject |-> vals[2].v,
     pctid |-> vals[3].v,
     hitlen |-> vals[4].v,
     nmismatch |-> vals[5].v,
     ngaps |-> vals[6].v,
     qstart |-> SetMin({vals[7].v, vals[8].v}),
     qstop |-> SetMax({vals[7].v, vals[8].v}),
     sstart |-> IF s1 > s2 THEN s2 ELSE s1,
     sstop |-> IF s1 > s2 THEN s1 ELSE s2,
     evalue |-> vals[11].v,
     score |-> vals[12].v,
     orientation |-> IF s1 > s2 THEN "-" ELSE "+"]

\* The object __init__ builds from the converted columns vals, the subject
\* coordinates as written being s1 and s2.
BlastLine_fields(vals, s1, s2) ==
    [query |-> vals[1].v, subject |-> vals[2].v,
     pctid |-> vals[3].v,
     hitlen |-> vals[4].v,
     nmismatch |-> vals[5].v,
     ngaps |-> vals[6].v,
     qstart |-> vals[7].v,
     qstop |-> vals[8].v,
     sstart |-> IF s1 > s2 THEN s2 ELSE s1,
     sstop |-> IF s1 > s2 THEN s1 ELSE s2,
     evalue |-> vals[11].v,
     score |-> vals[12].v,
     orientation |-> IF s1 > s2 THEN "-" ELSE "+"]

\* An __init__ that fails for a missing column only, and takes 0 for a
\* column that is no number.
BlastLine_args_unchecked(vals, bad) ==
    IF Len(vals) < NumColumns
    THEN [ok |-> FALSE, err |-> "IndexError", rec |-> NoLine]
    ELSE [ok |-> TRUE, err |-> "",
          rec |-> BlastLine_fields(vals, vals[9].v, vals[10].v)]

\* __init__ on the converted columns vals: bad is the set of columns whose
\* read or conversion raises; the first of them ends the construction.
BlastLine_args(vals, bad) ==
    IF bad # {}
    THEN [ok |-> FALSE,
          err |-> IF SetMin(bad) > Len(vals) THEN "IndexError" ELSE "ValueError",
          rec |-> NoLine]
    ELSE [ok |-> TRUE, err |-> "",
          rec |-> BlastLine_fields(vals, vals[9].v, vals[10].v)]

\* The columns of the split line args that are there, each converted once.
Columns(args) ==
    [i \in 1..Min(Len(args), NumColumns) |-> Converted(i, args[i])]

\* BlastLine.__init__(sline): [ok |-> FALSE] when it raises (IndexError for a
\* missing column, ValueError for a column that is no number).
BlastLine(sline) ==
    (CHOOSE it \in {BlastLine_args(vals,
            {i \in 1..NumColumns : IF i > Len(vals) THEN TRUE ELSE ~vals[i].ok})
         : vals \in {Columns(Split(sline, "\t"))}} : TRUE)

\* [str(getattr(self, attr)) for attr in BlastLine.__slots__[:12]]
SlotText(b) ==
    <<b.query, b.subject, StrFloat(b.pctid), StrInt(b.hitlen),
      StrInt(b.nmismatch), StrInt(b.ngaps), StrInt(b.qstart), StrInt(b.qstop),
      StrInt(b.sstart), StrInt(b.sstop), StrFloat(b.evalue), StrFloat(b.score)>>

\* A __str__ that forgets to put the subject coordinates back.
BlastLine_str_noflip(b) == Join(SlotText(b), "\t")

\* BlastLine.__str__
BlastLine_str(b) ==
    (CHOOSE it \in {Join(IF b.orientation = "-"
              THEN [args EXCEPT ![9] = args[10], ![10] = args[9]]
              ELSE args, "\t") : args \in {SlotText(b)}} : TRUE)

\* args[0:2] = [self.subject, self.query];
\* args[6:10] = [self.sstart, self.sstop, self.qstart, self.qstop]
SwappedSlots(b) ==
    (CHOOSE it \in {[args EXCEPT ![1] = b.subject, ![2] = b.query,
                      ![7] = StrInt(b.sstart), ![8] = StrInt(b.sstop),
                      ![9] = StrInt(b.qstart), ![10] = StrInt(b.qstop)]
         : args \in {SlotText(b)}} : TRUE)

\* BlastLine.swapped
BlastLine_swapped(b) ==
    (CHOOSE it \in {Join(IF b.orientation = "-"
              THEN [args EXCEPT ![9] = args[10], ![10] = args[9]]
              ELSE args, "\t") : args \in {SwappedSlots(b)}} : TRUE)

(***************************************************************************)
(* Lists: sort and groupby                                                 *)
(***************************************************************************)

Range(s) == {s[i] : i \in 1..Len(s)}

\* All orders of a finite set, as sequences.
Orders(S) ==
    {q \in [1..Cardinality(S) -> S] : \A x \in S : \E i \in 1..Cardinality(S) : q[i] = x}

\* The k-th smallest element of a set of integers.
Kth(S, k) == CHOOSE x \in S : Cardinality({y \in S : y < x}) = k - 1

\* Sort keys are tuples whose components are texts or numbers.  A key is
\* modelled as a sequence of components: the character codes of a text,
\* the one int, or the one float (f tells a float).
TextKey(t) == [f |-> FALSE, v |-> [i \in 1..Len(t) |-> Ord(t[i])]]

IntKey(k) == [f |-> FALSE, v |-> <<k>>]

FloatKey(x) == [f |-> TRUE, v |-> <<x>>]

\* Comparison of two sequences of ints, as Python compares strings: -1, 0
\* or 1.
CmpInts(s, t) ==
    (CHOOSE it \in {IF diff = {}
         THEN (IF Len(s) < Len(t) THEN -1 ELSE IF Len(s) > Len(t) THEN 1 ELSE 0)
         ELSE (IF s[SetMin(diff)] < t[SetMin(diff)] THEN -1 ELSE 1)
         : diff \in {{i \in 1..Min(Len(s), Len(t)) : s[i] # t[i]}}} : TRUE)

\* Comparison of two components of the same kind.
CmpNums(s, t) ==
    IF s.f THEN (IF FLess(s.v[1], t.v[1]) THEN -1 ELSE IF FLess(t.v[1], s.v[1]) THEN 1 ELSE 0)
    ELSE CmpInts(s.v, t.v)

\* Comparison of two keys with the same number of components, as Python
\* compares tuples: by the first components that are not equal.
CmpKey(k1, k2) ==
    (CHOOSE it \in {IF diff = {} THEN 0 ELSE CmpNums(k1[SetMin(diff)], k2[SetMin(diff)])
         : diff \in {{i \in 1..Len(k1) : IF k1[i].f THEN ~FEq(k1[i].v[1], k2[i].v[1])
                                          ELSE k1[i] # k2[i]}}} : TRUE)

\* x < y for two keys: the one question list.sort asks of them (false
\* both ways for a nan).
KeyLess(k1, k2) == CmpKey(k1, k2) < 0

\* list.sort(key=...) wraps each element with its key (sortwrapper of
\* listobject.c) and sorts the wrappers.  A wrapper here is [at, less]: the
\* place of the element in the list, and for every place of the list what
\* KeyLess answers for its key and the key there.
sortwrapper(items) ==
    [i \in 1..Len(items) |->
        [k |-> [at |-> i,
                less |-> [j \in 1..Len(items) |-> KeyLess(items[i].k, items[j].k)]],
         x |-> items[i].x]]

\* ISLT of listobject.c: x < y for two wrappers.
ISLT(x, y) == x.less[y.at]

\* reverse_slice: the items in the opposite order.
reverse_slice(s) == [i \in 1..Len(s) |-> s[Len(s) + 1 - i]]

\* count_run of list.sort: the length of the run the items start with, and
\* whether it descends.  A run descends when each item is less than the one
\* before it, and else goes on as long as no item is less than the one
\* before it.
count_run(items) ==
    IF Len(items) < 2 THEN [n |-> Len(items), descending |-> FALSE]
    ELSE (CHOOSE it \in { (CHOOSE it \in {[n |-> IF stops = {} THEN Len(items) ELSE SetMin(stops) - 1,
                     descending |-> desc]
                    : stops \in {{j \in 3..Len(items) :
                                    ISLT(items[j].k, items[j - 1].k) # desc}}} : TRUE)
               : desc \in {ISLT(items[2].k, items[1].k)} } : TRUE)

\* The place binarysort finds for the key k among the items s[l+1..r] of
\* the sorted list s: it halves the range, going left when k is less than
\* the item in the middle and right when it is not.
RECURSIVE BinaryPlace(_, _, _, _)
BinaryPlace(s, k, l, r) ==
    IF l >= r THEN l
    ELSE (CHOOSE it \in {IF ISLT(k, s[p + 1].k) THEN BinaryPlace(s, k, l, p)
              ELSE BinaryPlace(s, k, p + 1, r)
              : p \in {l + (r - l) \div 2}} : TRUE)

\* binarysort of list.sort: the items from the lo-th to the hi-th put one
\* by one, in their order, into the sorted list acc, each at the place the
\* binary search finds.
RECURSIVE binarysort(_, _, _, _)
binarysort(items, lo, hi, acc) ==
    IF lo > hi THEN acc
    ELSE IF lo = hi
    THEN (CHOOSE it \in {Take(acc, p) \o <<items[lo]>> \o Drop(acc, p)
              : p \in {BinaryPlace(acc, items[lo].k, 0, Len(acc))}} : TRUE)
    ELSE (CHOOSE it \in { (CHOOSE it \in {binarysort(items, mid + 1, hi, a)
                    : a \in {binarysort(items, lo, mid, acc)}} : TRUE)
              : mid \in {lo + (hi - lo) \div 2} } : TRUE)

\* MIN_GALLOP of listobject.c: the number of times in a row one run must
\* win before a merge starts to gallop.
MIN_GALLOP == 7

\* merge_compute_minrun(n): n itself under 64, else the six leading bits of
\* n, plus one when a bit below them is set.
RECURSIVE MinrunFrom(_, _)
MinrunFrom(n, r) ==
    IF n < 64 THEN n + r ELSE MinrunFrom(n \div 2, IF n % 2 = 1 THEN 1 ELSE r)

merge_compute_minrun(n) == MinrunFrom(n, 0)

\* The question a gallop asks of the item at the offset j (from 0) of the
\* run a: gallop_left asks a[j] < key, gallop_right asks key < a[j].
GallopAsks(left, key, a, j) ==
    IF left THEN ISLT(a[j + 1].k, key) ELSE ISLT(key, a[j + 1].k)

\* The first loop of a gallop: from the hint, offsets 1, 3, 7, ... in the
\* direction dir as long as the answer stays what it was at the hint.
RECURSIVE GallopOfs(_, _, _, _, _, _, _, _, _)
GallopOfs(left, key, a, hint, dir, first, lastofs, ofs, maxofs) ==
    IF ofs >= maxofs THEN [lastofs |-> lastofs, ofs |-> maxofs]
    ELSE IF GallopAsks(left, key, a, hint + dir * ofs) = first
    THEN GallopOfs(left, key, a, hint, dir, first, ofs, 2 * ofs + 1, maxofs)
    ELSE [lastofs |-> lastofs, ofs |-> ofs]

\* The second loop of a gallop: the binary search between the two offsets.
RECURSIVE GallopSearch(_, _, _, _, _)
GallopSearch(left, key, a, lastofs, ofs) ==
    IF lastofs >= ofs THEN ofs
    ELSE (CHOOSE it \in {IF GallopAsks(left, key, a, m) = left
                         THEN GallopSearch(left, key, a, m + 1, ofs)
                         ELSE GallopSearch(left, key, a, lastofs, m)
              : m \in {lastofs + (ofs - lastofs) \div 2}} : TRUE)

\* gallop_left (left) and gallop_right (not left) of listobject.c on the
\* run a, which is not empty, from the offset hint: the number of items of
\* a that come before key, counting those equal to key for gallop_right
\* and not for gallop_left.
gallop(left, key, a, hint) ==
    (CHOOSE it \in { (CHOOSE it \in { (CHOOSE it \in {IF dir = 1
                              THEN GallopSearch(left, key, a, g.lastofs + hint + 1, g.ofs + hint)
                              ELSE GallopSearch(left, key, a, hint - g.ofs + 1, hint - g.lastofs)
                           : g \in {GallopOfs(left, key, a, hint, dir, first, 0, 1,
                                              IF dir = 1 THEN Len(a) - hint ELSE hint + 1)}} : TRUE)
                      : dir \in {IF first = left THEN 1 ELSE -1} } : TRUE)
              : first \in {GallopAsks(left, key, a, hint)} } : TRUE)

gallop_left(key, a, hint) == gallop(TRUE, key, a, hint)

gallop_right(key, a, hint) == gallop(FALSE, key, a, hint)

\* The state of a merge of the runs a and b: out is the part of the result
\* written so far, a and b are what is left of the runs, acount and bcount
\* count the wins in a row, and at is the place in the code: "one" for the
\* loop that compares one pair at a time, "gallop" for the loop that
\* gallops, "Succeed", "CopyB" and "CopyA" for the labels of the same names.
MergeState(out, a, b, acount, bcount, min_gallop, at) ==
    [out |-> out, a |-> a, b |-> b, acount |-> acount, bcount |-> bcount,
     min_gallop |-> min_gallop, at |-> at]

\* One pass of the loop of merge_lo that compares the heads of the runs.
merge_lo_one(st) ==
    IF ISLT(st.b[1].k, st.a[1].k)
    THEN MergeState(Append(st.out, st.b[1]), st.a, Tail(st.b), 0, st.bcount + 1,
                    IF Len(st.b) > 1 /\ st.bcount + 1 >= st.min_gallop
                    THEN st.min_gallop + 1 ELSE st.min_gallop,
                    IF Len(st.b) = 1 THEN "Succeed"
                    ELSE IF st.bcount + 1 >= st.min_gallop THEN "gallop" ELSE "one")
    ELSE MergeState(Append(st.out, st.a[1]), Tail(st.a), st.b, st.acount + 1, 0,
                    IF Len(st.a) > 2 /\ st.acount + 1 >= st.min_gallop
                    THEN st.min_gallop + 1 ELSE st.min_gallop,
                    IF Len(st.a) = 2 THEN "CopyB"
                    ELSE IF st.acount + 1 >= st.min_gallop THEN "gallop" ELSE "one")

\* One pass of the loop of merge_lo that gallops, in its four parts: the
\* items of a that come before the head of b, that head, the items of b
\* that come before the head of a, that head.  Each part leaves a state
\* that has reached a label as it is.
merge_lo_gallop_a(st) ==
    (CHOOSE it \in {MergeState(st.out \o Take(st.a, k), Drop(st.a, k), st.b, k, st.bcount, mg,
                               IF k > 0 /\ Len(st.a) - k = 1 THEN "CopyB"
                               ELSE IF k > 0 /\ Len(st.a) - k = 0 THEN "Succeed" ELSE "gallop")
         : k \in {gallop_right(st.b[1].k, st.a, 0)},
           mg \in {IF st.min_gallop > 1 THEN st.min_gallop - 1 ELSE st.min_gallop}} : TRUE)

merge_lo_gallop_b1(st) ==
    IF st.at # "gallop" THEN st
    ELSE MergeState(Append(st.out, st.b[1]), st.a, Tail(st.b), st.acount, st.bcount,
                    st.min_gallop, IF Len(st.b) = 1 THEN "Succeed" ELSE "gallop")

merge_lo_gallop_b(st) ==
    IF st.at # "gallop" THEN st
    ELSE (CHOOSE it \in {MergeState(st.out \o Take(st.b, k), st.a, Drop(st.b, k), st.acount, k,
                                    st.min_gallop,
                                    IF k > 0 /\ Len(st.b) - k = 0 THEN "Succeed" ELSE "gallop")
              : k \in {gallop_left(st.a[1].k, st.b, 0)}} : TRUE)

merge_lo_gallop_a1(st) ==
    IF st.at # "gallop" THEN st
    ELSE (CHOOSE it \in {MergeState(Append(st.out, st.a[1]), Tail(st.a), st.b,
                                    IF stay \/ Len(st.a) = 2 THEN st.acount ELSE 0,
                                    IF stay \/ Len(st.a) = 2 THEN st.bcount ELSE 0,
                                    IF stay \/ Len(st.a) = 2 THEN st.min_gallop
                                    ELSE st.min_gallop + 1,
                                    IF Len(st.a) = 2 THEN "CopyB"
                                    ELSE IF stay THEN "gallop" ELSE "one")
              : stay \in {st.acount >= MIN_GALLOP \/ st.bcount >= MIN_GALLOP}} : TRUE)

merge_lo_gallop(st) ==
    (CHOOSE it \in { (CHOOSE it \in { (CHOOSE it \in {merge_lo_gallop_a1(s3)
                           : s3 \in {merge_lo_gallop_b(s2)}} : TRUE)
                      : s2 \in {merge_lo_gallop_b1(s1)} } : TRUE)
              : s1 \in {merge_lo_gallop_a(st)} } : TRUE)

\* Front(s, k) and Back(s, k): s without its last k items, and those items.
Front(s, k) == Take(s, Len(s) - k)

Back(s, k) == Drop(s, Len(s) - k)

\* One pass of the loop of merge_hi that compares the last items of the
\* runs.
merge_hi_one(st) ==
    IF ISLT(st.b[Len(st.b)].k, st.a[Len(st.a)].k)
    THEN MergeState(Back(st.a, 1) \o st.out, Front(st.a, 1), st.b, st.acount + 1, 0,
                    IF Len(st.a) > 1 /\ st.acount + 1 >= st.min_gallop
                    THEN st.min_gallop + 1 ELSE st.min_gallop,
                    IF Len(st.a) = 1 THEN "Succeed"
                    ELSE IF st.acount + 1 >= st.min_gallop THEN "gallop" ELSE "one")
    ELSE MergeState(Back(st.b, 1) \o st.out, st.a, Front(st.b, 1), 0, st.bcount + 1,
                    IF Len(st.b) > 2 /\ st.bcount + 1 >= st.min_gallop
                    THEN st.min_gallop + 1 ELSE st.min_gallop,
                    IF Len(st.b) = 2 THEN "CopyA"
                    ELSE IF st.bcount + 1 >= st.min_gallop THEN "gallop" ELSE "one")

\* One pass of the loop of merge_hi that gallops, in its four parts: the
\* items of a that come after the last of b, that last item, the items of
\* b that do not come before the last of a, that last item.
merge_hi_gallop_a(st) ==
    (CHOOSE it \in {MergeState(Back(st.a, k) \o st.out, Front(st.a, k), st.b, k, st.bcount, mg,
                               IF k > 0 /\ Len(st.a) - k = 0 THEN "Succeed" ELSE "gallop")
         : k \in {Len(st.a) - gallop_right(st.b[Len(st.b)].k, st.a, Len(st.a) - 1)},
           mg \in {IF st.min_gallop > 1 THEN st.min_gallop - 1 ELSE st.min_gallop}} : TRUE)

merge_hi_gallop_b1(st) ==
    IF st.at # "gallop" THEN st
    ELSE MergeState(Back(st.b, 1) \o st.out, st.a, Front(st.b, 1), st.acount, st.bcount,
                    st.min_gallop, IF Len(st.b) = 2 THEN "CopyA" ELSE "gallop")

merge_hi_gallop_b(st) ==
    IF st.at # "gallop" THEN st
    ELSE (CHOOSE it \in {MergeState(Back(st.b, k) \o st.out, st.a, Front(st.b, k), st.acount, k,
                                    st.min_gallop,
                                    IF k > 0 /\ Len(st.b) - k = 1 THEN "CopyA"
                                    ELSE IF k > 0 /\ Len(st.b) - k = 0 THEN "Succeed"
                                    ELSE "gallop")
              : k \in {Len(st.b) - gallop_left(st.a[Len(st.a)].k, st.b, Len(st.b) - 1)}} : TRUE)

merge_hi_gallop_a1(st) ==
    IF st.at # "gallop" THEN st
    ELSE (CHOOSE it \in {MergeState(Back(st.a, 1) \o st.out, Front(st.a, 1), st.b,
                                    IF stay \/ Len(st.a) = 1 THEN st.acount ELSE 0,
                                    IF stay \/ Len(st.a) = 1 THEN st.bcount ELSE 0,
                                    IF stay \/ Len(st.a) = 1 THEN st.min_gallop
                                    ELSE st.min_gallop + 1,
                                    IF Len(st.a) = 1 THEN "Succeed"
                                    ELSE IF stay THEN "gallop" ELSE "one")
              : stay \in {st.acount >= MIN_GALLOP \/ st.bcount >= MIN_GALLOP}} : TRUE)

merge_hi_gallop(st) ==
    (CHOOSE it \in { (CHOOSE it \in { (CHOOSE it \in {merge_hi_gallop_a1(s3)
                           : s3 \in {merge_hi_gallop_b(s2)}} : TRUE)
                      : s2 \in {merge_hi_gallop_b1(s1)} } : TRUE)
              : s1 \in {merge_hi_gallop_a(st)} } : TRUE)

\* One pass of whichever loop the merge is in; lo tells merge_lo from
\* merge_hi.
merge_pass(lo, st) ==
    IF st.at = "one" THEN (IF lo THEN merge_lo_one(st) ELSE merge_hi_one(st))
    ELSE IF st.at = "gallop" THEN (IF lo THEN merge_lo_gallop(st) ELSE merge_hi_gallop(st))
    ELSE st

\* At most n passes, one after the other, until a label is reached.
RECURSIVE merge_passes(_, _, _)
merge_passes(lo, st, n) ==
    IF n = 0 \/ st.at \notin {"one", "gallop"} THEN st
    ELSE IF n = 1 THEN merge_pass(lo, st)
    ELSE (CHOOSE it \in {merge_passes(lo, half, n - n \div 2)
              : half \in {merge_passes(lo, st, n \div 2)}} : TRUE)

\* merge_lo(a, b) for the neighbouring runs a and b, with na <= nb: a is
\* set aside and the result is written from the left, starting with the
\* head of b.  At Succeed what is left of a goes after what was written (b
\* is in its place after that); at CopyB the last item of a goes after what
\* is left of b.  The result and the min_gallop the merge leaves.
merge_lo(a, b, min_gallop) ==
    (CHOOSE it \in {[run |-> IF st.at = "CopyB" THEN st.out \o st.b \o st.a
                             ELSE st.out \o st.a \o st.b,
                     min_gallop |-> st.min_gallop]
         : st \in {merge_passes(TRUE,
                       MergeState(<<b[1]>>, a, Tail(b), 0, 0, min_gallop,
                                  IF Len(b) = 1 THEN "Succeed"
                                  ELSE IF Len(a) = 1 THEN "CopyB" ELSE "one"),
                       Len(a) + Len(b))}} : TRUE)

\* merge_hi(a, b), with na > nb: b is set aside and the result is written
\* from the right, starting with the last item of a.  At Succeed what is
\* left of b goes before what was written (a is in its place before that);
\* at CopyA the one item left of b goes before what is left of a.
merge_hi(a, b, min_gallop) ==
    (CHOOSE it \in {[run |-> IF st.at = "CopyA" THEN st.b \o st.a \o st.out
                             ELSE st.a \o st.b \o st.out,
                     min_gallop |-> st.min_gallop]
         : st \in {merge_passes(FALSE,
                       MergeState(Back(a, 1), Front(a, 1), b, 0, 0, min_gallop,
                                  IF Len(a) = 1 THEN "Succeed"
                                  ELSE IF Len(b) = 1 THEN "CopyA" ELSE "one"),
                       Len(a) + Len(b))}} : TRUE)

\* The merge of merge_at for the neighbouring runs a and b: the k items of
\* a that come before the head of b stay where they are, and so do the
\* items of b from the place of the last item of a on; what is between is
\* merged by merge_lo or merge_hi.
merge_trimmed(a, b, k, nb, min_gallop) ==
    IF k = Len(a) \/ nb <= 0 THEN [run |-> a \o b, min_gallop |-> min_gallop]
    ELSE (CHOOSE it \in {[run |-> Take(a, k) \o m.run \o Drop(b, nb),
                          min_gallop |-> m.min_gallop]
              : m \in {IF Len(a) - k <= nb
                       THEN merge_lo(Drop(a, k), Take(b, nb), min_gallop)
                       ELSE merge_hi(Drop(a, k), Take(b, nb), min_gallop)}} : TRUE)

\* merge_at(ms, i): the runs i and i+1 (from 1) of the stack ms.pending
\* become one.
merge_at(ms, i) ==
    (CHOOSE it \in { (CHOOSE it \in {[pending |-> Take(ms.pending, i - 1) \o <<m.run>>
                                       \o Drop(ms.pending, i + 1),
                        min_gallop |-> m.min_gallop]
                    : m \in {merge_trimmed(a, b, k,
                                 IF k = Len(a) THEN 0
                                 ELSE gallop_left(a[Len(a)].k, b, Len(b) - 1),
                                 ms.min_gallop)}} : TRUE)
              : a \in {ms.pending[i]}, b \in {ms.pending[i + 1]},
                k \in {gallop_right(ms.pending[i + 1][1].k, ms.pending[i], 0)} } : TRUE)

\* The length of the run j places below the top of the stack (0 for the
\* top).
RunLen(ms, j) == Len(ms.pending[Len(ms.pending) - j])

\* merge_collapse(ms) of CPython 2.7: runs are merged until each run on the
\* stack is longer than the two above it together and the one above it.
RECURSIVE merge_collapse(_)
merge_collapse(ms) ==
    (CHOOSE it \in {
         IF n < 2 THEN ms
         ELSE IF \/ n > 2 /\ RunLen(ms, 2) <= RunLen(ms, 1) + RunLen(ms, 0)
                 \/ n > 3 /\ RunLen(ms, 3) <= RunLen(ms, 2) + RunLen(ms, 1)
         THEN (CHOOSE it \in {merge_collapse(next)
                   : next \in {merge_at(ms, IF RunLen(ms, 2) < RunLen(ms, 0)
                                            THEN n - 2 ELSE n - 1)}} : TRUE)
         ELSE IF RunLen(ms, 1) <= RunLen(ms, 0)
         THEN (CHOOSE it \in {merge_collapse(next) : next \in {merge_at(ms, n - 1)}} : TRUE)
         ELSE ms
       : n \in {Len(ms.pending)}} : TRUE)

\* merge_force_collapse(ms): the runs left on the stack are merged into one.
RECURSIVE merge_force_collapse(_)
merge_force_collapse(ms) ==
    (CHOOSE it \in {
         IF n < 2 THEN ms
         ELSE (CHOOSE it \in {merge_force_collapse(next)
                   : next \in {merge_at(ms, IF n > 2 /\ RunLen(ms, 2) < RunLen(ms, 0)
                                            THEN n - 2 ELSE n - 1)}} : TRUE)
       : n \in {Len(ms.pending)}} : TRUE)

\* The next run of the list rest: the run it starts with, reversed when it
\* descends, and, when that is shorter than minrun, the items after it up
\* to minrun put in by binarysort.
NextRun(rest, minrun) ==
    (CHOOSE it \in { (CHOOSE it \in {IF run.n < minrun
                         THEN binarysort(rest, run.n + 1, Min(Len(rest), minrun), natural)
                         ELSE natural
                    : natural \in {IF run.descending THEN reverse_slice(Take(rest, run.n))
                                   ELSE Take(rest, run.n)}} : TRUE)
              : run \in {count_run(rest)} } : TRUE)

\* The loop of listsort over the list: each run is pushed on the stack,
\* which merge_collapse then brings to order.
RECURSIVE listsort_runs(_, _, _)
listsort_runs(rest, minrun, ms) ==
    IF rest = <<>> THEN ms
    ELSE (CHOOSE it \in { (CHOOSE it \in {listsort_runs(Drop(rest, Len(run)), minrun, next)
                    : next \in {merge_collapse([pending |-> Append(ms.pending, run),
                                                min_gallop |-> ms.min_gallop])}} : TRUE)
              : run \in {NextRun(rest, minrun)} } : TRUE)

\* listsort of listobject.c, CPython 2.7 (the interpreter blast.py is
\* written for): the list is cut into runs of at least minrun items, which
\* are merged; a list of fewer than 64 items is one run.  CPython from 3.11
\* on picks the runs to merge by another rule; the sorted list is the same
\* unless a key is nan and the list, of 128 items or more, has long runs.
listsort(items) ==
    IF Len(items) < 2 THEN items
    ELSE (CHOOSE it \in {merge_force_collapse(ms).pending[1]
              : ms \in {listsort_runs(items, merge_compute_minrun(Len(items)),
                                      [pending |-> <<>>, min_gallop |-> MIN_GALLOP])}} : TRUE)

\* list.sort(key=...) / sorted(..., key=...) on the items [k |-> key,
\* x |-> element]; the result lists the elements.  The keys are asked one
\* question only, KeyLess.
SortedItems(items) ==
    (CHOOSE it \in {[i \in 1..Len(r) |-> r[i].x] : r \in {listsort(sortwrapper(items))}} : TRUE)

Sorted(items) == (CHOOSE it \in {SortedItems(v) : v \in {items}} : TRUE)

\* The run of items that starts at st, starts being the places where runs
\* start.
RunAt(items, starts, st) ==
    (CHOOSE it \in {[j \in 1..(end - st + 1) |-> items[st + j - 1].x]
         : end \in {IF \E y \in starts : y > st
                    THEN SetMin({y \in starts : y > st}) - 1
                    ELSE Len(items)}} : TRUE)

GroupRuns(items, starts) ==
    [k \in 1..Cardinality(starts) |->
        (CHOOSE it \in {RunAt(items, starts, st) : st \in {Kth(starts, k)}} : TRUE)]

\* itertools.groupby(..., key=...): the maximal runs of consecutive items
\* with equal keys, in order; each run lists its elements.
GroupByItems(items) ==
    (CHOOSE it \in {GroupRuns(items, starts)
         : starts \in {{i \in 1..Len(items) :
                          IF i = 1 THEN TRUE ELSE items[i].k # items[i - 1].k}}} : TRUE)

GroupBy(items) == (CHOOSE it \in {GroupByItems(v) : v \in {items}} : TRUE)

(***************************************************************************)
(* BlastSlow: the whole file in memory.  An object is named by the number  *)
(* of the line it was built from; a list holds names.                      *)
(***************************************************************************)

\* list.sort(key=lambda x: x.query) on the objects objs
SortByQuery(objs) ==
    Sorted([i \in 1..Len(objs) |-> [k |-> <<TextKey(objs[i].query)>>, x |-> i]])

BlastSlow_rows(res, fail, sorted) ==
    IF fail # {}
    THEN [ok |-> FALSE, err |-> res[SetMin(fail)].err, objs |-> <<>>, list |-> <<>>]
    ELSE (CHOOSE it \in {[ok |-> TRUE, err |-> "", objs |-> objs,
               list |-> IF sorted THEN [i \in 1..Len(objs) |-> i] ELSE SortByQuery(objs)]
              : objs \in {[i \in 1..Len(res) |-> res[i].rec]}} : TRUE)

\* BlastSlow.__init__(filename, sorted): a BlastLine per row (the first row
\* that fails ends the run), then a sort by query unless sorted is given as
\* true; the default is sorted=False.
BlastSlow(lines, sorted) ==
    (CHOOSE it \in {BlastSlow_rows(res, {i \in 1..Len(res) : ~res[i].ok}, sorted)
         : res \in {[i \in 1..Len(lines) |-> BlastLine(lines[i])]}} : TRUE)

(***************************************************************************)
(* iter_hits: both are generators over itertools.groupby, and hand out one *)
(* group for each next().  A groupby object is [it, currkey, currvalue,    *)
(* tgtkey]: it counts the items taken from what it iterates over, and the  *)
(* other three are <<>> for NULL or hold one value, as in                  *)
(* itertoolsmodule.c.  What it iterates over is given as the list src of   *)
(* its items, each [ok, err, k, x]: the value x and its key k, or the      *)
(* error err the key function raises for it.                               *)
(***************************************************************************)

NewGroupby == [it |-> 0, currkey |-> <<>>, currvalue |-> <<>>, tgtkey |-> <<>>]

\* groupby.next(): items are taken until the key at hand is not the key of
\* the group handed out last (items of that group that were not read are
\* passed over), and a group for the key at hand is handed out.  The end
\* of the source ends the groupby; an error of the key function ends it
\* with the item lost.
RECURSIVE groupby_next(_, _)
groupby_next(gb, src) ==
    IF gb.currkey # <<>> /\ gb.tgtkey # gb.currkey
    THEN [out |-> "group", err |-> "", gb |-> [gb EXCEPT !.tgtkey = gb.currkey]]
    ELSE IF gb.it >= Len(src) THEN [out |-> "stop", err |-> "", gb |-> gb]
    ELSE IF ~src[gb.it + 1].ok
    THEN [out |-> "error", err |-> src[gb.it + 1].err, gb |-> [gb EXCEPT !.it = @ + 1]]
    ELSE (CHOOSE it \in {groupby_next(taken, src)
              : taken \in {[gb EXCEPT !.it = @ + 1,
                                      !.currkey = <<src[gb.it + 1].k>>,
                                      !.currvalue = <<src[gb.it + 1].x>>]}} : TRUE)

\* The groupby object once the next item is at hand: the item held, or
\* else the next one of the source.
grouper_step(gb, src) ==
    IF gb.currvalue # <<>> THEN [out |-> "item", err |-> "", gb |-> gb]
    ELSE IF gb.it >= Len(src) THEN [out |-> "stop", err |-> "", gb |-> gb]
    ELSE IF ~src[gb.it + 1].ok
    THEN [out |-> "error", err |-> src[gb.it + 1].err, gb |-> [gb EXCEPT !.it = @ + 1]]
    ELSE [out |-> "item", err |-> "",
          gb |-> [gb EXCEPT !.it = @ + 1,
                            !.currkey = <<src[gb.it + 1].k>>,
                            !.currvalue = <<src[gb.it + 1].x>>]]

\* _grouper.next() of the group handed out for the key tgtkey: the item at
\* hand when its key is tgtkey, which leaves nothing at hand; else the
\* group has ended, and the item stays at hand for the next group.
grouper_next(gb, src, tgtkey) ==
    (CHOOSE it \in {IF s.out # "item" THEN [out |-> s.out, err |-> s.err, x |-> 0, gb |-> s.gb]
                    ELSE IF tgtkey # s.gb.currkey
                    THEN [out |-> "stop", err |-> "", x |-> 0, gb |-> s.gb]
                    ELSE [out |-> "item", err |-> "", x |-> s.gb.currvalue[1],
                          gb |-> [s.gb EXCEPT !.currkey = <<>>, !.currvalue = <<>>]]
         : s \in {grouper_step(gb, src)}} : TRUE)

\* groupby(self, key=lambda x: x.query) of BlastSlow.iter_hits iterates
\* over the objects objs in the order list.
BlastSlow_source(objs, list) ==
    [i \in 1..Len(list) |-> [ok |-> TRUE, err |-> "", k |-> objs[list[i]].query, x |-> list[i]]]

\* One row of the file for groupby(self.fp, key=lambda x: BlastLine(x).query):
\* the key is the query of the BlastLine built from the row, and the row
\* is named by its number.
Blast_row(line, i) ==
    (CHOOSE it \in {IF r.ok THEN [ok |-> TRUE, err |-> "", k |-> r.rec.query, x |-> i]
                    ELSE [ok |-> FALSE, err |-> r.err, k |-> <<>>, x |-> i]
         : r \in {BlastLine(line)}} : TRUE)

\* A source that is put in the order of the queries before it is grouped.
Blast_source_sorted(lines) ==
    (CHOOSE it \in {[i \in 1..Len(rows) |->
                       rows[Sorted([j \in 1..Len(rows) |->
                                      [k |-> <<TextKey(rows[j].k)>>, x |-> j]])[i]]]
         : rows \in {[i \in 1..Len(lines) |-> Blast_row(lines[i], i)]}} : TRUE)

\* Blast.iter_hits iterates over the rows of the file as they come.
Blast_source(lines) == [i \in 1..Len(lines) |-> Blast_row(lines[i], i)]

\* blines.sort(key=lambda x: -x.score) on a group of rows of the file
SortByScoreDescending(lines, group) ==
    Sorted([i \in 1..Len(group) |->
              [k |-> <<FloatKey(FNeg(BlastLine(lines[group[i]]).rec.score))>>, x |-> group[i]]])

\* [BlastLine(x) for x in blines]: the group of the key tgtkey read to its
\* end; acc holds the rows read so far.
RECURSIVE Blast_read_group(_, _, _, _)
Blast_read_group(gb, src, tgtkey, acc) ==
    (CHOOSE it \in {IF r.out = "item" THEN Blast_read_group(r.gb, src, tgtkey, Append(acc, r.x))
                    ELSE [out |-> r.out, err |-> r.err, blines |-> acc, gb |-> r.gb]
         : r \in {grouper_next(gb, src, tgtkey)}} : TRUE)

\* One next() of the generator Blast.iter_hits on the rows lines, gb being
\* its groupby: the next group is asked for, read to its end and sorted by
\* descending score.  out is "group" with the group, "stop" at the end of
\* the file, or "error" when a row fails: the group that was being read is
\* then not handed out.
Blast_iter_hits(gb, lines) ==
    (CHOOSE it \in {
        (CHOOSE it \in {
            IF n.out # "group" THEN [out |-> n.out, err |-> n.err, gb |-> n.gb, hit |-> <<>>]
            ELSE (CHOOSE it \in {
                    IF g.out = "error"
                    THEN [out |-> "error", err |-> g.err, gb |-> g.gb, hit |-> <<>>]
                    ELSE [out |-> "group", err |-> "", gb |-> g.gb,
                          hit |-> <<[query |-> n.gb.tgtkey[1],
                                     blines |-> SortByScoreDescending(lines, g.blines)]>>]
                    : g \in {Blast_read_group(n.gb, src, n.gb.tgtkey, <<>>)}} : TRUE)
            : n \in {groupby_next(gb, src)}} : TRUE)
        : src \in {Blast_source(lines)}} : TRUE)

(***************************************************************************)
(* sort(args): the file is sorted in place by the command                  *)
(* "sort <key> F -o F", sort of coreutils.  Text is compared byte by byte, *)
(* as the command does in the C locale.                                    *)
(***************************************************************************)

\* A key -kF,F of the command: the field, n for numeric and r for reversed.
SortKey(f, n, r) == [f |-> f, n |-> n, r |-> r]

\* The keys sort(args) picks from its options.  With --coords and neither
\* --query nor --ref no branch assigns key, and building the command raises
\* UnboundLocalError.
sort_key(opts) ==
    IF opts.coords
    THEN IF opts.query
         THEN [err |-> "", keys |-> <<SortKey(13, FALSE, FALSE), SortKey(3, TRUE, FALSE)>>]
         ELSE IF opts.ref
         THEN [err |-> "", keys |-> <<SortKey(12, FALSE, FALSE), SortKey(1, TRUE, FALSE)>>]
         ELSE [err |-> "UnboundLocalError", keys |-> <<>>]
    ELSE IF opts.query
    THEN [err |-> "", keys |-> <<SortKey(1, FALSE, FALSE), SortKey(7, TRUE, FALSE)>>]
    ELSE IF opts.ref
    THEN [err |-> "", keys |-> <<SortKey(2, FALSE, FALSE), SortKey(9, TRUE, FALSE)>>]
    ELSE [err |-> "", keys |-> <<SortKey(1, FALSE, FALSE), SortKey(12, TRUE, TRUE)>>]

\* The characters that separate the fields of the command.
IsBlank(c) == c \in {" ", "\t"}

\* The line without the newline that ends it.
Chomp(line) ==
    IF line # <<>> /\ line[Len(line)] = "\n" THEN Take(line, Len(line) - 1) ELSE line

\* Where the fields of the line t start: at its start, and at each blank
\* that follows a character that is not blank.  The blanks in front of a
\* field are part of it.
SortFieldStarts(t) == {i \in 1..Len(t) : i = 1 \/ (IsBlank(t[i]) /\ ~IsBlank(t[i - 1]))}

\* The field f of the line t, empty when the line has fewer fields.
SortField(t, f) ==
    (CHOOSE it \in {IF f > Cardinality(starts) THEN <<>>
                    ELSE SubSeq(t, Kth(starts, f),
                                IF f = Cardinality(starts) THEN Len(t)
                                ELSE Kth(starts, f + 1) - 1)
         : starts \in {SortFieldStarts(t)}} : TRUE)

\* The digits t goes on with from the place i.
DigitRun(t, i) ==
    (CHOOSE it \in {IF stops = {} THEN SubSeq(t, i, Len(t))
                    ELSE SubSeq(t, i, SetMin(stops) - 1)
         : stops \in {{j \in i..Len(t) : ~IsDigit(t[j])}}} : TRUE)

\* The digits s without the zeros in front, and without those at the end.
DropZerosInFront(s) ==
    (CHOOSE it \in {IF keep = {} THEN <<>> ELSE SubSeq(s, SetMin(keep), Len(s))
         : keep \in {{i \in 1..Len(s) : s[i] # "0"}}} : TRUE)

DropZerosAtEnd(s) ==
    (CHOOSE it \in {IF keep = {} THEN <<>> ELSE SubSeq(s, 1, SetMax(keep))
         : keep \in {{i \in 1..Len(s) : s[i] # "0"}}} : TRUE)

\* The number a numeric key reads from the text t: blanks, a minus sign,
\* digits, a point and digits; it stops at whatever else comes (an
\* exponent is not read), and a text that starts with no digit is 0.  The
\* number is [sign, whole, frac], the digits as values, sign 0 for zero.
SortNumberFrom(body) ==
    (CHOOSE it \in {
        (CHOOSE it \in {
            (CHOOSE it \in {
                [sign |-> IF whole = <<>> /\ frac = <<>> THEN 0
                          ELSE IF body # <<>> /\ body[1] = "-" THEN -1 ELSE 1,
                 whole |-> [i \in 1..Len(whole) |-> DigitVal(whole[i])],
                 frac |-> [i \in 1..Len(frac) |-> DigitVal(frac[i])]]
                : whole \in {DropZerosInFront(run)},
                  frac \in {IF Len(run) < Len(digits) /\ digits[Len(run) + 1] = "."
                            THEN DropZerosAtEnd(DigitRun(digits, Len(run) + 2))
                            ELSE <<>>}} : TRUE)
            : run \in {DigitRun(digits, 1)}} : TRUE)
        : digits \in {IF body # <<>> /\ body[1] = "-" THEN Drop(body, 1) ELSE body}} : TRUE)

SortNumber(t) ==
    (CHOOSE it \in {IF idx = {} THEN SortNumberFrom(<<>>)
                    ELSE SortNumberFrom(Drop(t, SetMin(idx) - 1))
         : idx \in {{i \in 1..Len(t) : ~IsBlank(t[i])}}} : TRUE)

\* Two such numbers compared, digit by digit: -1, 0 or 1.
SortNumCompare(x, y) ==
    IF x.sign # y.sign THEN (IF x.sign < y.sign THEN -1 ELSE 1)
    ELSE IF x.sign = 0 THEN 0
    ELSE IF Len(x.whole) # Len(y.whole)
    THEN (IF Len(x.whole) < Len(y.whole) THEN -x.sign ELSE x.sign)
    ELSE x.sign * CmpInts(x.whole \o x.frac, y.whole \o y.frac)

\* Two texts compared by their bytes.
SortTextCompare(s, t) ==
    CmpInts([i \in 1..Len(s) |-> Ord(s[i])], [i \in 1..Len(t) |-> Ord(t[i])])

\* Two lines compared on one key.
SortKeyCompare(a, b, key) ==
    (CHOOSE it \in {IF key.r THEN -c ELSE c
         : c \in {IF key.n
                  THEN SortNumCompare(SortNumber(SortField(a, key.f)),
                                      SortNumber(SortField(b, key.f)))
                  ELSE SortTextCompare(SortField(a, key.f), SortField(b, key.f))}} : TRUE)

\* Two lines compared as the command compares them: on the keys from i on,
\* one after the other, and when all are equal on the whole lines.
RECURSIVE SortCompare(_, _, _, _)
SortCompare(a, b, keys, i) ==
    IF i > Len(keys) THEN SortTextCompare(a, b)
    ELSE (CHOOSE it \in {IF c # 0 THEN c ELSE SortCompare(a, b, keys, i + 1)
              : c \in {SortKeyCompare(a, b, keys[i])}} : TRUE)

\* sh("sort <keys> F -o F") on the lines of F: the lines in the order of
\* SortCompare, each ended by a newline.  Lines that compare equal are the
\* same line.
sort_command(lines, keys) ==
    (CHOOSE it \in {
        [p \in 1..Len(rows) |->
            rows[CHOOSE i \in 1..Len(rows) :
                   Cardinality({j \in 1..Len(rows) :
                       \E c \in {SortCompare(rows[j], rows[i], keys, 1)} :
                           c < 0 \/ (c = 0 /\ j < i)}) = p - 1] \o <<"\n">>]
        : rows \in {[i \in 1..Len(lines) |-> Chomp(lines[i])]}} : TRUE)

(***************************************************************************)
(* jcvi.utils.range.range_distance and jcvi.utils.grouper.Grouper          *)
(***************************************************************************)

\* range_distance(a, b, distmode): a and b are [chr, min, max, strand].
\* The distance is -1 for two chromosomes; else, lo being the range that
\* starts first and hi the other, "ss" spans both and "ee" is the gap
\* between them.
RangeOrdered(lo, hi, distmode) ==
    [dist |-> IF distmode = "ss" THEN hi.max - lo.min + 1 ELSE hi.min - lo.max - 1,
     orientation |-> <<lo.strand, hi.strand>>]

range_distance(a, b, distmode) ==
    IF a.chr # b.chr THEN [dist |-> -1, orientation |-> <<a.strand, b.strand>>]
    ELSE IF a.min > b.min THEN RangeOrdered(b, a, distmode)
    ELSE RangeOrdered(a, b, distmode)

\* One argument of Grouper.join(a, *args): arg joins the set of a in the
\* mapping m (object -> the list of its set; the members of one set share
\* one list), the longer list taking the shorter one at its end.
Grouper_merge(m, set_a, set_b) ==
    (CHOOSE it \in {[x \in DOMAIN m |-> IF m[x] = set_a \/ m[x] = set_b THEN grown ELSE m[x]]
         : grown \in {IF Len(set_b) > Len(set_a) THEN set_b \o set_a ELSE set_a \o set_b}} : TRUE)

Grouper_arg(m, a, arg) ==
    IF arg \notin DOMAIN m
    THEN (CHOOSE it \in {[x \in DOMAIN m \cup {arg} |->
                 IF x = arg THEN grown ELSE IF m[x] = m[a] THEN grown ELSE m[x]]
              : grown \in {Append(m[a], arg)}} : TRUE)
    ELSE IF m[arg] # m[a] THEN Grouper_merge(m, m[a], m[arg])
    ELSE m

RECURSIVE Grouper_args(_, _, _, _)
Grouper_args(m, a, args, i) ==
    IF i > Len(args) THEN m
    ELSE (CHOOSE it \in {Grouper_args(m2, a, args, j) :
                m2 \in {Grouper_arg(m, a, args[i])}, j \in {i + 1}} : TRUE)

\* Grouper.join(a, *args)
Grouper_join(m, a, args) ==
    (CHOOSE it \in {Grouper_args(m1, a, args, 1)
         : m1 \in {IF a \in DOMAIN m THEN m ELSE (a :> <<a>>) @@ m}} : TRUE)

\* Grouper.__iter__: the disjoint sets, each once.
Grouper_sets(m) == {m[x] : x \in DOMAIN m}

(***************************************************************************)
(* Chaining of HSPs                                                        *)
(***************************************************************************)

\* The range of an HSP on the query axis or on the subject axis.
AxisRange(a, xaxis) ==
    IF xaxis
    THEN [chr |-> "0", min |-> a.qstart, max |-> a.qstop, strand |-> a.orientation]
    ELSE [chr |-> "0", min |-> a.sstart, max |-> a.sstop, strand |-> a.orientation]

\* get_distance(a, b, xaxis): the distance between two HSPs on one axis.
get_distance(a, b, xaxis) ==
    Abs(range_distance(AxisRange(a, xaxis), AxisRange(b, xaxis), "ee").dist)

\* One turn of the loop of combine_HSPs: b is folded into m.
Combined(m, b) ==
    [m EXCEPT !.hitlen = m.hitlen + b.hitlen,
              !.nmismatch = m.nmismatch + b.nmismatch,
              !.ngaps = m.ngaps + b.ngaps,
              !.qstart = Min(m.qstart, b.qstart),
              !.qstop = Max(m.qstop, b.qstop),
              !.sstart = Min(m.sstart, b.sstart),
              !.sstop = Max(m.sstop, b.sstop),
              !.score = FAdd(m.score, b.score)]

\* The loop of combine_HSPs over a[1:], from the i-th object of a on: the
\* object a[0] of the heap h is changed in place.  A failed assertion ends
\* the loop.
RECURSIVE CombineLoop(_, _, _)
CombineLoop(h, a, i) ==
    IF i > Len(a) THEN [heap |-> h, err |-> ""]
    ELSE IF \/ h[a[1]].query # h[a[i]].query
            \/ h[a[1]].subject # h[a[i]].subject
            \/ h[a[1]].orientation # h[a[i]].orientation
    THEN [heap |-> h, err |-> "AssertionError"]
    ELSE (CHOOSE it \in {CombineLoop(h2, a, j) :
                h2 \in {[h EXCEPT ![a[1]] = Combined(h[a[1]], h[a[i]])]}, j \in {i + 1}} : TRUE)

\* m.pctid = 100 - (m.nmismatch + m.ngaps) * 100. / m.hitlen
MergedPctid(m) ==
    FSub(FromInt(100),
         FDiv(FMul(FromInt(m.nmismatch + m.ngaps), FromInt(100)), FromInt(m.hitlen)))

\* combine_HSPs after its loop.
CombineEnd(loop, m) ==
    IF loop.err # "" THEN [heap |-> loop.heap, m |-> m, err |-> loop.err]
    ELSE IF loop.heap[m].hitlen = 0
    THEN [heap |-> loop.heap, m |-> m, err |-> "ZeroDivisionError"]
    ELSE [heap |-> [loop.heap EXCEPT ![m].pctid = MergedPctid(loop.heap[m])],
          m |-> m, err |-> ""]

\* A combine_HSPs that leaves the last object of the cluster out.
combine_HSPs_short(h, a) ==
    IF Len(a) = 1 THEN [heap |-> h, m |-> a[1], err |-> ""]
    ELSE (CHOOSE it \in {CombineEnd(loop, a[1]) : loop \in {CombineLoop(h, Take(a, Len(a) - 1), 2)}} : TRUE)

\* combine_HSPs(a) on the heap h: the heap it leaves, the object it returns
\* (a[0]) and the exception it raises, if any.
combine_HSPs(h, a) ==
    IF Len(a) = 1 THEN [heap |-> h, m |-> a[1], err |-> ""]
    ELSE (CHOOSE it \in {CombineEnd(loop, a[1]) : loop \in {CombineLoop(h, a, 2)}} : TRUE)

\* A test that forgets the orientation.
Linked_any_orientation(a, b, xdist, ydist) ==
    /\ get_distance(a, b, TRUE) <= xdist
    /\ get_distance(a, b, FALSE) <= ydist

\* The test chain_HSPs makes before it joins a and b.
Linked(a, b, xdist, ydist) ==
    /\ a.orientation = b.orientation
    /\ ~(get_distance(a, b, TRUE) > xdist)
    /\ ~(get_distance(a, b, FALSE) > ydist)

\* An inner loop that looks at the next point only.
JoinInner_next(m, h, points, i, j, xdist, ydist) ==
    IF j > Len(points) THEN m
    ELSE IF Linked(h[points[i]], h[points[j]], xdist, ydist)
    THEN Grouper_join(m, points[i], <<points[j]>>)
    ELSE m

\* The inner loop of chain_HSPs: for j in xrange(i + 1, n), from j on.
RECURSIVE JoinInner(_, _, _, _, _, _, _)
JoinInner(m, h, points, i, j, xdist, ydist) ==
    IF j > Len(points) THEN m
    ELSE (CHOOSE it \in {JoinInner(m2, h, points, i, j2, xdist, ydist) :
                m2 \in {IF Linked(h[points[i]], h[points[j]], xdist, ydist)
                        THEN Grouper_join(m, points[i], <<points[j]>>)
                        ELSE m},
                j2 \in {j + 1}} : TRUE)

\* The outer loop: for i in xrange(n), from i on: join(a), then the inner loop.
RECURSIVE JoinOuter(_, _, _, _, _, _)
JoinOuter(m, h, points, i, xdist, ydist) ==
    IF i > Len(points) THEN m
    ELSE (CHOOSE it \in {JoinOuter(m2, h, points, i2, xdist, ydist) :
                m2 \in {(CHOOSE it \in {JoinInner(m1, h, points, i, i + 1, xdist, ydist)
                             : m1 \in {Grouper_join(m, points[i], <<>>)}} : TRUE)},
                i2 \in {i + 1}} : TRUE)

\* sorted(points, key=(qstart, qstop, sstart, sstop)) for one group g.
SortPoints(h, g) ==
    Sorted([i \in 1..Len(g) |->
              [k |-> <<IntKey(h[g[i]].qstart), IntKey(h[g[i]].qstop),
                       IntKey(h[g[i]].sstart), IntKey(h[g[i]].sstop)>>,
               x |-> g[i]]])

\* The loop over the groups, from the k-th group on.
RECURSIVE JoinGroups(_, _, _, _, _, _)
JoinGroups(m, h, groups, k, xdist, ydist) ==
    IF k > Len(groups) THEN m
    ELSE (CHOOSE it \in {JoinGroups(m2, h, groups, k2, xdist, ydist) :
                m2 \in {(CHOOSE it \in {JoinOuter(m, h, points, 1, xdist, ydist)
                             : points \in {SortPoints(h, groups[k])}} : TRUE)},
                k2 \in {k + 1}} : TRUE)

\* blastlines.sort(key=(query, subject)) of chain_HSPs.
SortByPair(h, list) ==
    Sorted([i \in 1..Len(list) |->
              [k |-> <<TextKey(h[list[i]].query), TextKey(h[list[i]].subject)>>,
               x |-> list[i]]])

\* groupby(blastlines, key=(query, subject)) on the sorted list.
GroupByPair(h, sorted) ==
    GroupBy([i \in 1..Len(sorted) |->
               [k |-> <<h[sorted[i]].query, h[sorted[i]].subject>>, x |-> sorted[i]]])

\* The Grouper chain_HSPs has built when its first loop ends.
ChainClusters(h, list, xdist, ydist) ==
    (CHOOSE it \in {JoinGroups(<<>>, h, groups, 1, xdist, ydist)
         : groups \in {GroupByPair(h, SortByPair(h, list))}} : TRUE)

\* The loop over the clusters, from the k-th on: combine each in turn; an
\* exception ends it.
RECURSIVE CombineAll(_, _, _, _)
CombineAll(h, cs, k, acc) ==
    IF k > Len(cs) THEN [heap |-> h, hsps |-> acc, err |-> ""]
    ELSE (CHOOSE it \in {IF r.err # "" THEN [heap |-> r.heap, hsps |-> acc, err |-> r.err]
              ELSE CombineAll(r.heap, cs, k + 1, Append(acc, r.m))
              : r \in {combine_HSPs(h, cs[k])}} : TRUE)

\* sorted(chained_hsps, key=lambda x: -x.score)
SortByScore(h, hsps) ==
    Sorted([i \in 1..Len(hsps) |-> [k |-> <<FloatKey(FNeg(h[hsps[i]].score))>>, x |-> hsps[i]]])

ChainEnd(h, list, cs, done) ==
    [heap |-> done.heap,
     blastlines |-> SortByPair(h, list),
     clusters |-> cs,
     err |-> done.err,
     chained_hsps |-> IF done.err # "" THEN <<>> ELSE SortByScore(done.heap, done.hsps)]

\* chain_HSPs(blastlines, xdist, ydist) on the heap h, the Grouper yielding
\* its sets in the order cs (it keeps them in a dict keyed by the objects'
\* identities: the sets can come out in any order).
chain_HSPs(h, list, cs, xdist, ydist) ==
    (CHOOSE it \in {ChainEnd(h, list, cs, done) : done \in {CombineAll(h, cs, 1, <<>>)}} : TRUE)

(***************************************************************************)
(* cscore                                                                  *)
(***************************************************************************)

\* Blast.iter_line, a generator, read to its end: a BlastLine per row of the
\* file; the first row that fails ends the run, after the rows before it
\* have been handed out.
iter_line(lines) ==
    (CHOOSE it \in {(CHOOSE it \in {IF fail # {}
              THEN [ok |-> FALSE, err |-> res[SetMin(fail)].err,
                    rows |-> [i \in 1..(SetMin(fail) - 1) |-> res[i].rec]]
              ELSE [ok |-> TRUE, err |-> "", rows |-> [i \in 1..Len(res) |-> res[i].rec]]
              : fail \in {{i \in 1..Len(res) : ~res[i].ok}}} : TRUE)
         : res \in {[i \in 1..Len(lines) |-> BlastLine(lines[i])]}} : TRUE)

\* d[key] of a defaultdict(float) d: a missing key is entered with 0.0.
Entered(d, key) == IF key \in DOMAIN d THEN d ELSE d @@ (key :> FZero)

\* if b.score > best_score[id]: best_score[id] = b.score
Register(best, id, score) ==
    (CHOOSE it \in {IF FLess(b[id], score) THEN [b EXCEPT ![id] = score] ELSE b
         : b \in {Entered(best, id)}} : TRUE)

\* The first loop of cscore over the rows, from the i-th on.
RECURSIVE RegisterBest(_, _, _)
RegisterBest(best, rows, i) ==
    IF i > Len(rows) THEN best
    ELSE (CHOOSE it \in {RegisterBest(b2, rows, j)
              : b2 \in {(CHOOSE it \in {Register(b1, rows[i].subject, rows[i].score)
                             : b1 \in {Register(best, rows[i].query, rows[i].score)}} : TRUE)},
                j \in {i + 1}} : TRUE)

\* if s > opts.cutoff
Retained(s, cutoff) == FLess(cutoff, s)

\* The body of the second loop for the row b with c-score s.
KeepPair(prs, b, s, cutoff) ==
    IF Retained(s, cutoff)
    THEN (CHOOSE it \in {(CHOOSE it \in {IF FLess(p[pair], s) THEN [p EXCEPT ![pair] = s] ELSE p
                   : p \in {Entered(prs, pair)}} : TRUE)
              : pair \in {<<b.query, b.subject>>}} : TRUE)
    ELSE prs

\* The second loop of cscore over the rows, from the i-th on; a division by
\* 0.0 ends it.
RECURSIVE ScorePairs(_, _, _, _, _)
ScorePairs(best, prs, rows, i, cutoff) ==
    IF i > Len(rows) THEN [pairs |-> prs, err |-> ""]
    ELSE (CHOOSE it \in {IF IsZero(denom) THEN [pairs |-> prs, err |-> "ZeroDivisionError"]
              ELSE (CHOOSE it \in {ScorePairs(best, p2, rows, j, cutoff)
                        : p2 \in {KeepPair(prs, rows[i], FDiv(rows[i].score, denom), cutoff)},
                          j \in {i + 1}} : TRUE)
              : denom \in {FMax(best[rows[i].query], best[rows[i].subject])}} : TRUE)

\* The sort key of a pair.
PairKey(pair) == <<TextKey(pair[1]), TextKey(pair[2])>>

\* sorted(pairs.items()): the pairs in the order of (query, subject); no
\* two items have the same pair.
SortedPairs(prs) ==
    [i \in 1..Cardinality(DOMAIN prs) |->
        (CHOOSE it \in {k \in DOMAIN prs :
               Cardinality({j \in DOMAIN prs : CmpKey(PairKey(j), PairKey(k)) < 0}) = i - 1} : TRUE)]

\* The lines cscore prints.
cscore_print(prs) ==
    (CHOOSE it \in {[i \in 1..Len(keys) |->
            Join(<<keys[i][1], keys[i][2], Format2f(prs[keys[i]])>>, "\t") \o <<"\n">>]
         : keys \in {SortedPairs(prs)}} : TRUE)

CscoreEnd(best, scored) ==
    [best_score |-> best, pairs |-> scored.pairs, err |-> scored.err,
     stdout |-> IF scored.err = "" THEN cscore_print(scored.pairs) ELSE <<>>]

\* cscore on the rows of the file with --cutoff.
cscore_rows(rows, cutoff) ==
    (CHOOSE it \in {CscoreEnd(best, ScorePairs(best, <<>>, rows, 1, cutoff))
         : best \in {RegisterBest(<<>>, rows, 1)}} : TRUE)

\* cscore([blastfile, "--cutoff", cutoff]): what it leaves and prints.  A
\* row that fails ends it in its first loop, which has registered the rows
\* before that one.
cscore(lines, cutoff) ==
    (CHOOSE it \in {IF ~blast.ok
         THEN [best_score |-> RegisterBest(<<>>, blast.rows, 1), pairs |-> <<>>,
               err |-> blast.err, stdout |-> <<>>]
         ELSE cscore_rows(blast.rows, cutoff)
         : blast \in {iter_line(lines)}} : TRUE)

(***************************************************************************)
(* report_pairs.  A read feature is [accn, seqid, start, end, strand].     *)
(***************************************************************************)

\* key = (lambda x: x.accn[:-rclip]) if rclip else (lambda x: x.accn)
ClipKey(x, rclip) ==
    IF rclip > 0 THEN Take(x.accn, Max(0, Len(x.accn) - rclip))
    ELSE IF rclip < 0 THEN Take(x.accn, Min(Len(x.accn), -rclip))
    ELSE x.accn

\* data.sort(key=key)
SortByKey(list, rclip) ==
    Sorted([i \in 1..Len(list) |-> [k |-> <<TextKey(ClipKey(list[i], rclip))>>, x |-> list[i]]])

\* groupby(data, key=key) on the sorted list
GroupByKey(list, rclip) ==
    GroupBy([i \in 1..Len(list) |-> [k |-> ClipKey(list[i], rclip), x |-> list[i]]])

\* The range of a read feature.
FeatureRange(x) == [chr |-> x.seqid, min |-> x.start, max |-> x.end, strand |-> x.strand]

\* The body of the first loop for a group of two: the pair is counted, and
\* its distance is kept when it is not negative.
PairOf(acc, a, b, distmode) ==
    (CHOOSE it \in {[acc EXCEPT !.num_pairs = @ + 1,
                     !.all_dist = IF rd.dist >= 0
                                  THEN Append(@, [dist |-> rd.dist, orientation |-> rd.orientation,
                                                  aquery |-> a.accn, bquery |-> b.accn])
                                  ELSE @]
         : rd \in {range_distance(FeatureRange(a), FeatureRange(b), distmode)}} : TRUE)

\* The first loop of report_pairs over the groups, from the g-th on.
RECURSIVE PairUp(_, _, _, _)
PairUp(acc, groups, g, distmode) ==
    IF g > Len(groups) THEN acc
    ELSE (CHOOSE it \in {PairUp(acc2, groups, g2, distmode)
              : acc2 \in {IF Len(groups[g]) # 2
                          THEN [acc EXCEPT !.num_fragments = @ + Len(groups[g])]
                          ELSE PairOf(acc, groups[g][1], groups[g][2], distmode)},
                g2 \in {g + 1}} : TRUE)

\* A selection that keeps every pair, whatever its orientation.
WithOrientation_all(all_dist, mateorientation, i, acc) == all_dist

\* [x for x in all_dist if x[1] == mateorientation], from the i-th on.
RECURSIVE WithOrientation(_, _, _, _)
WithOrientation(all_dist, mateorientation, i, acc) ==
    IF i > Len(all_dist) THEN acc
    ELSE (CHOOSE it \in {WithOrientation(all_dist, mateorientation, j, acc2)
              : acc2 \in {IF all_dist[i].orientation = mateorientation
                          THEN Append(acc, all_dist[i]) ELSE acc},
                j \in {i + 1}} : TRUE)

\* np.sort of a list of ints.
SortInts(xs) == Sorted([i \in 1..Len(xs) |-> [k |-> <<IntKey(xs[i])>>, x |-> xs[i]]])

\* int(2 * np.median(dists)) for the sorted list s, not empty: twice the
\* middle one, or the sum of the two middle ones.
TwiceMedian(s) ==
    IF Len(s) % 2 = 1 THEN 2 * s[(Len(s) + 1) \div 2]
    ELSE s[Len(s) \div 2] + s[Len(s) \div 2 + 1]

\* a / b for two ints of Python 2, b # 0: the floor of the ratio.
FloorDiv(a, b) == IF b > 0 THEN a \div b ELSE (-a) \div (-b)

\* int(math.ceil(cutoff / bins)) * bins, bins # 0: the quotient of two ints
\* is an int, the floor of the ratio, and math.ceil leaves it as it is.
RoundToBins(cutoff, bins) == FloorDiv(cutoff, bins) * bins

\* The cutoff report_pairs uses: the one given when it is positive; else
\* the estimate from the distances (an exception when there are none, or
\* when bins is 0).
CutoffFor(cutoff, all_dist, bins) ==
    IF cutoff > 0 THEN [err |-> "", cutoff |-> cutoff]
    ELSE IF all_dist = <<>> THEN [err |-> "ValueError", cutoff |-> cutoff]
    ELSE IF bins = 0 THEN [err |-> "ZeroDivisionError", cutoff |-> cutoff]
    ELSE (CHOOSE it \in {[err |-> "", cutoff |-> RoundToBins(TwiceMedian(dists), bins)]
              : dists \in {SortInts([i \in 1..Len(all_dist) |-> all_dist[i].dist])}} : TRUE)

\* The second loop of report_pairs, from the i-th item on: the items within
\* the cutoff, in the order of all_dist.
RECURSIVE LinkedWithin(_, _, _, _)
LinkedWithin(all_dist, cutoff, i, acc) ==
    IF i > Len(all_dist) THEN acc
    ELSE (CHOOSE it \in {LinkedWithin(all_dist, cutoff, j, acc2)
              : acc2 \in {IF all_dist[i].dist > cutoff THEN acc ELSE Append(acc, all_dist[i])},
                j \in {i + 1}} : TRUE)

RECURSIVE SumOf(_, _)
SumOf(xs, i) == IF i > Len(xs) THEN 0 ELSE xs[i] + (CHOOSE it \in {SumOf(xs, j) : j \in {i + 1}} : TRUE)

\* res += a[i] for i from lo to hi, in order.
RECURSIVE AddInOrder(_, _, _, _)
AddInOrder(a, lo, hi, res) ==
    IF lo > hi THEN res
    ELSE (CHOOSE it \in {AddInOrder(a, j, hi, r) : j \in {lo + 1}, r \in {FAdd(res, a[lo])}} : TRUE)

\* One of the eight partial sums numpy keeps over the whole blocks of eight
\* of the n items after a[off]: the j-th item of every block, in order.
Lane(a, off, j, n) ==
    (CHOOSE it \in {AddInOrder(xs, 2, Len(xs), xs[1])
         : xs \in {[b \in 1..(n \div 8) |-> a[off + 8 * (b - 1) + j]]}} : TRUE)

\* numpy's sum of the n doubles after a[off] (pairwise summation): fewer
\* than 8 items are added in order to 0.0; up to 128 items go to eight
\* partial sums, added in pairs, and the items left over are added in order;
\* a longer list is halved.
RECURSIVE pairwise_sum(_, _, _)
pairwise_sum(a, off, n) ==
    IF n < 8 THEN AddInOrder(a, off + 1, off + n, FZero)
    ELSE IF n <= 128
    THEN (CHOOSE it \in {AddInOrder(a, off + n - (n % 8) + 1, off + n,
                         FAdd(FAdd(FAdd(r[1], r[2]), FAdd(r[3], r[4])),
                              FAdd(FAdd(r[5], r[6]), FAdd(r[7], r[8]))))
              : r \in {[j \in 1..8 |-> Lane(a, off, j, n)]}} : TRUE)
    ELSE (CHOOSE it \in { (CHOOSE it \in {FAdd(x, y) : x \in {pairwise_sum(a, off, n2)},
                                 y \in {pairwise_sum(a, off + n2, n - n2)}} : TRUE)
               : n2 \in {(n \div 2) - (((n \div 2)) % 8)} } : TRUE)

\* np.mean(s) for a list of ints, not empty: their sum (whole numbers below
\* 2^53 add up exactly, in any order) over their number.
np_mean(s) == FDiv(FromInt(SumOf(s, 1)), FromInt(Len(s)))

\* np.std from the mean on.
np_std_from(s, mean) ==
    (CHOOSE it \in {FSqrt(FDiv(pairwise_sum(sq, 0, Len(s)), FromInt(Len(s))))
         : sq \in {[i \in 1..Len(s) |->
                      (CHOOSE it \in {FMul(d, d) : d \in {FSub(FromInt(s[i]), mean)}} : TRUE)]} } : TRUE)

\* np.std(s) for a list of ints, not empty: the root of the mean of the
\* squares of the distances from the mean, every step in doubles.
np_std(s) == np_std_from(s, np_mean(s))

\* The statistics of the sorted linked distances s, not empty: int(mean),
\* int(population standard deviation), int(median), and the entries at
\* int(n * .025) and int(n * .975).
StatsOf(s) ==
    (CHOOSE it \in {[meandist |-> FInt(mean),
          stdev |-> FInt(np_std_from(s, mean)),
          p0 |-> TwiceMedian(s) \div 2,
          p1 |-> s[(n * 25) \div 1000 + 1],
          p2 |-> s[(n * 975) \div 1000 + 1]]
         : n \in {Len(s)}, mean \in {np_mean(s)}} : TRUE)

NoStats == [meandist |-> 0, stdev |-> 0, p0 |-> 0, p1 |-> 0, p2 |-> 0]

\* The line of the pairs file (when one is asked for) for a linked item.
PairsLine(x) == Join(<<x.aquery, x.bquery, StrInt(x.dist)>>, "\t") \o <<"\n">>

\* report_pairs from its second loop on, with the cutoff cut.
ReportLinked(sorted, acc, all_dist, cut) ==
    (CHOOSE it \in {[data |-> sorted, err |-> IF linked = <<>> THEN "IndexError" ELSE "",
          num_fragments |-> acc.num_fragments, num_pairs |-> acc.num_pairs,
          all_dist |-> all_dist, cutoff |-> cut, linked |-> linked,
          pairsfile |-> [i \in 1..Len(linked) |-> PairsLine(linked[i])],
          stats |-> IF linked = <<>> THEN NoStats
                    ELSE StatsOf(SortInts([i \in 1..Len(linked) |-> linked[i].dist]))]
         : linked \in {LinkedWithin(all_dist, cut, 1, <<>>)}} : TRUE)

\* report_pairs after its first loop and the selection of orientations.
ReportFrom(sorted, acc, all_dist, cutoff, bins) ==
    (CHOOSE it \in {IF c.err # ""
         THEN [data |-> sorted, err |-> c.err,
               num_fragments |-> acc.num_fragments, num_pairs |-> acc.num_pairs,
               all_dist |-> all_dist, cutoff |-> cutoff, linked |-> <<>>,
               pairsfile |-> <<>>, stats |-> NoStats]
         ELSE ReportLinked(sorted, acc, all_dist, c.cutoff)
         : c \in {CutoffFor(cutoff, all_dist, bins)}} : TRUE)

\* allowed_mateorientations
AllowedMateOrientations == {<<"+", "+">>, <<"-", "-">>, <<"+", "-">>, <<"-", "+">>}

\* report_pairs(data, cutoff, mateorientation, pairsfile, rclip=rclip,
\* bins=bins, distmode=distmode); mateorientation <<>> stands for None (and
\* for the empty text).  The assertion comes before the list is sorted.
report_pairs(list, cutoff, mateorientation, rclip, bins, distmode) ==
    IF mateorientation # <<>> /\ mateorientation \notin AllowedMateOrientations
    THEN [data |-> list, err |-> "AssertionError", num_fragments |-> 0, num_pairs |-> 0,
          all_dist |-> <<>>, cutoff |-> cutoff, linked |-> <<>>, pairsfile |-> <<>>,
          stats |-> NoStats]
    ELSE
    (CHOOSE it \in {(CHOOSE it \in {ReportFrom(sorted, acc,
                         IF mateorientation # <<>>
                         THEN WithOrientation(acc.all_dist, mateorientation, 1, <<>>)
                         ELSE acc.all_dist,
                         cutoff, bins)
              : acc \in {PairUp([num_fragments |-> 0, num_pairs |-> 0, all_dist |-> <<>>],
                                GroupByKey(sorted, rclip), 1, distmode)}} : TRUE)
         : sorted \in {SortByKey(list, rclip)}} : TRUE)

(***************************************************************************)
(* State                                                                   *)
(***************************************************************************)

VARIABLES
    pc,            \* what has run: "start", then the name of the last step
    err,           \* the exception that ended the run, "" when none
    cmd,           \* the call made and its arguments
    sline,         \* the line given to BlastLine
    bline,         \* the BlastLine built from sline
    text,          \* str(bline)
    fp,            \* the lines of the input file
    heap0,         \* the BlastLine objects as parsed, by line number
    heap,          \* the same objects now
    blastlines,    \* the list of objects (BlastSlow), in its current order
    clusters,      \* the sets of the Grouper, in the order they were combined
    chained_hsps,  \* the list chain_HSPs returns
    best_score,    \* cscore: the defaultdict best_score, id -> score
    pairs,         \* cscore: the defaultdict pairs, <<query, subject>> -> c-score
    data,          \* report_pairs: the list of read features
    report,        \* report_pairs: its counts, distances, cutoff and statistics
    stdout,        \* the lines printed
    eager_hits,    \* the generator BlastSlow(fp).iter_hits() and what it has handed out
    stream_hits,   \* the generator Blast(fp).iter_hits() and what it has handed out
    swapped,       \* bline.swapped
    mirror,        \* the BlastLine built from swapped
    back           \* mirror.swapped

vars == <<pc, err, cmd, sline, bline, text, fp, heap0, heap, blastlines,
          clusters, chained_hsps, best_score, pairs, data, report, stdout,
          eager_hits, stream_hits, swapped, mirror, back>>

\* The variables of the chaining, of cscore and of report_pairs.
chainVars == <<heap0, heap, blastlines, clusters, chained_hsps>>

cscoreVars == <<best_score, pairs>>

pairsVars == <<data, report>>

\* The variables of iter_hits and of the swapped view.
hitsVars == <<eager_hits, stream_hits>>

swapVars == <<swapped, mirror, back>>

NoHits == [name |-> "none"]

NoReport == [name |-> "none"]

NoCmd == [name |-> "none"]

(***************************************************************************)
(* Inputs                                                                  *)
(***************************************************************************)

\* A line of the file from its twelve columns, with its line end.
HitLine(cols) == Join(cols, "\t") \o <<"\n">>

A == <<"A">>

B == <<"B">>

C == <<"C">>

\* Lines for one BlastLine: float columns written as BLAST and other tools
\* write them (one of them with thirteen significant digits, one with its
\* exponent in upper case), subject coordinates in both orders, a line end
\* (of either kind) or none.
ParseLines ==
    {Join(<<A, B, pctid, <<"1", "0">>, <<"1">>, <<"0">>,
            q[1], q[2], sb[1], sb[2], evalue, score>>, "\t")
       : pctid \in {<<"1", "0", "0", ".", "0", "0">>, <<"9", "7", ".", "5">>, <<"1", "0", "0">>,
                    <<"9", "9", ".", "9", "9", "9", "9", "0", "2", "3", "4", "3", "7", "5">>},
         q \in {<<<<"1">>, <<"1", "0">>>>, <<<<"1", "0">>, <<"1">>>>, <<<<"5">>, <<"5">>>>},
         sb \in {<<<<"1">>, <<"1", "0">>>>, <<<<"1", "0">>, <<"1">>>>, <<<<"5">>, <<"5">>>>,
                 <<<<"2", "0">>, <<"3">>>>},
         evalue \in {<<"1", "e", "-", "0", "5">>, <<"0", ".", "0">>, <<"2", "E", "-", "1", "2", "0">>},
         score \in {<<"1", "0", "0">>, <<"5", "8", ".", "4", "\r", "\n">>,
                    <<"4", "7", "2", ".", "0", "\n">>}}

\* The columns of a well-formed line, and lines made from them: the line
\* itself, the line with a thirteenth column, the line cut after its first
\* columns, the empty line, and the line with a numeric column replaced by a
\* text that is no number.
GoodColumns ==
    <<A, B, <<"9", "7", ".", "5">>, <<"1", "0">>, <<"1">>, <<"0">>, <<"1">>, <<"1", "0">>,
      <<"1", "0">>, <<"1">>, <<"1", "e", "-", "0", "5">>, <<"5", "8", ".", "4">>>>

NotNumbers == {<<"x">>, <<>>, <<"1", "0", "x">>}

RowTexts ==
    {HitLine(GoodColumns), HitLine(Append(GoodColumns, <<"x">>)), <<"\n">>}
    \cup {HitLine(Take(GoodColumns, n)) : n \in {1, 2, 5, 11}}
    \cup {HitLine([GoodColumns EXCEPT ![i] = t]) : i \in 3..NumColumns, t \in NotNumbers}

\* The lines of the files loaded: two well-formed ones, a line of eleven
\* columns, a line whose hitlen and a line whose score is no number, and the
\* empty line.
StoreLines ==
    { HitLine(GoodColumns),
      HitLine(Append([GoodColumns EXCEPT ![1] = C], <<"x">>)),
      HitLine(Take(GoodColumns, 11)),
      HitLine([GoodColumns EXCEPT ![4] = <<"x">>]),
      HitLine([GoodColumns EXCEPT ![12] = <<"x">>]),
      <<"\n">> }

\* A hit for the chaining: ids, hitlen, nmismatch, ngaps, the four
\* coordinates as written and the score.
ChainLine(q, s, hitlen, nmismatch, ngaps, qstart, qstop, sstart, sstop, score) ==
    HitLine(<<q, s, <<"9", "0", ".", "0">>, StrInt(hitlen), StrInt(nmismatch), StrInt(ngaps),
              StrInt(qstart), StrInt(qstop), StrInt(sstart), StrInt(sstop),
              <<"0", ".", "0">>, StrInt(score)>>)

\* Hits of A on B that chain at distance 5 only through the middle one, a hit
\* far away on the subject, a hit on the other strand, a hit on another
\* subject and a hit of length 0.
ChainLines ==
    { ChainLine(A, B, 10, 1, 0,  1, 10,  1, 10, 50),
      ChainLine(A, B, 20, 0, 2, 14, 20, 14, 20, 30),
      ChainLine(A, B,  5, 2, 1, 24, 30, 24, 30, 50),
      ChainLine(A, B,  8, 0, 0, 14, 20, 40, 50, 70),
      ChainLine(A, B, 10, 1, 1, 14, 20, 20, 14, 30),
      ChainLine(A, C, 10, 1, 0, 14, 20, 14, 20, 40),
      ChainLine(A, B,  0, 0, 0,  5,  5,  5,  5, 10) }

\* A hit for the merge alone: as ChainLine, the score given as text.
MergeLine(q, s, hitlen, nmismatch, ngaps, qstart, qstop, sstart, sstop, score) ==
    HitLine(<<q, s, <<"9", "0", ".", "0">>, StrInt(hitlen), StrInt(nmismatch), StrInt(ngaps),
              StrInt(qstart), StrInt(qstop), StrInt(sstart), StrInt(sstop),
              <<"0", ".", "0">>, score>>)

\* Three hits of A on B with bit scores as BLAST writes them, which chain at
\* distance 5 only through the middle one, two hits of A on C with whole
\* scores, and a hit of B on C whose score is the text nan, which float()
\* takes.
MergeLines ==
    { MergeLine(A, B, 10, 1, 0,  1, 10,  1, 10, <<"5", "8", ".", "4">>),
      MergeLine(A, B, 20, 0, 2, 14, 20, 14, 20, <<"3", "0", ".", "2">>),
      MergeLine(A, B,  5, 2, 1, 24, 30, 24, 30, <<"4", "7", ".", "3">>),
      MergeLine(A, C, 10, 1, 0,  1, 10,  1, 10, <<"5", "0">>),
      MergeLine(A, C,  8, 0, 1, 14, 20, 14, 20, <<"3", "0">>),
      MergeLine(B, C, 10, 1, 0,  1, 10,  1, 10, <<"n", "a", "n">>) }

\* A hit for cscore: ids and score, the score as text or as an int.
ScoreText(q, s, score) ==
    HitLine(<<q, s, <<"9", "0", ".", "0">>, <<"1", "0">>, <<"1">>, <<"0">>,
              <<"1">>, <<"1", "0">>, <<"1">>, <<"1", "0">>, <<"1", "e", "-", "0", "5">>,
              score>>)

ScoreLine(q, s, score) == ScoreText(q, s, StrInt(score))

\* Hits between A, B and C: reciprocal best hits, a second hit of a pair,
\* weaker hits, a hit of score 0, a hit of negative score, a hit whose
\* score is the text inf, which float() takes, and a row whose score is no
\* number.
CscoreLines ==
    { ScoreLine(A, B, 100),
      ScoreLine(A, B, 50),
      ScoreLine(B, A, 100),
      ScoreLine(A, C, 30),
      ScoreLine(B, C, 60),
      ScoreLine(C, B, 0),
      ScoreLine(C, A, -20),
      ScoreText(C, A, <<"i", "n", "f">>),
      ScoreText(B, C, <<"x">>) }

\* Hits of two queries, the two hits of A with different scores, the first
\* with the lesser one, and a row of B whose score is no number.
HitsLines ==
    { ScoreLine(A, B, 50),
      ScoreLine(A, C, 70),
      ScoreLine(B, A, 30),
      ScoreText(B, C, <<"x">>) }

\* The options sort(args) is called with: none, --ref, and --coords alone.
SortOptions ==
    { [query |-> FALSE, ref |-> FALSE, coords |-> FALSE],
      [query |-> FALSE, ref |-> TRUE, coords |-> FALSE],
      [query |-> FALSE, ref |-> FALSE, coords |-> TRUE] }

\* The values of --cutoff tried: the default, one half, zero and a negative
\* one.
CutoffTexts ==
    {<<"0", ".", "9", "9", "9", "9">>, <<"0", ".", "5">>, <<"0">>, <<"-", "1">>}

Cutoffs == {PyFloat(t).v : t \in CutoffTexts}

\* The most lines a file has.
MaxLines == 3

\* Read features: the mates r1a and r1b face each other on c1 and the mates
\* r3a and r3b face away from each other; r2a and r2b overlap on c1, on one
\* strand; r2c is a third read of the name r2, on c2.
Feature(accn, seqid, start, end, strand) ==
    [accn |-> accn, seqid |-> seqid, start |-> start, end |-> end, strand |-> strand]

Features ==
    { Feature(<<"r", "1", "a">>, "c1",  1, 10, "+"),
      Feature(<<"r", "1", "b">>, "c1", 36, 45, "-"),
      Feature(<<"r", "2", "a">>, "c1",  5, 14, "+"),
      Feature(<<"r", "2", "b">>, "c1", 10, 30, "+"),
      Feature(<<"r", "2", "c">>, "c2", 21, 30, "-"),
      Feature(<<"r", "3", "a">>, "c1", 41, 50, "+"),
      Feature(<<"r", "3", "b">>, "c1",  1, 10, "-") }

\* The most read features a list has.
MaxReads == 4

\* The lists of distinct read features.
FeatureLists ==
    UNION {{f \in [1..n -> Features] : \A i, j \in 1..n : i # j => f[i] # f[j]}
           : n \in 0..MaxReads}

\* The options of report_pairs tried: no cutoff and a cutoff, any mate
\* orientation, innies only, outies only and one that is not allowed, the
\* last character of a name clipped, none, and all but the first, two bin
\* sizes, both distance modes.
CutoffOptions == {0, 30}

MateOrientations == {<<>>, <<"+", "-">>, <<"-", "+">>, <<"+">>}

RClips == {1, 0, -1}

BinSizes == {20, 7}

DistModes == {"ss", "ee"}

Files(lines) == UNION {[1..n -> lines] : n \in 0..MaxLines}

\* Distance thresholds.
Dists == {5, 10}

\* The values of --dist tried.
DistOptions == {0, 5}

\* Thresholds of which one at least is not positive, for chain_HSPs called
\* directly, and values of --dist that are not positive.
BadThresholds == {<<0, 5>>, <<5, 0>>, <<-5, -5>>}

BadDistOptions == {0, -5}

(***************************************************************************)
(* BlastLine: construction and serialisation of one line                   *)
(***************************************************************************)

InitCommon ==
    /\ pc = "start"
    /\ err = ""
    /\ cmd = NoCmd
    /\ bline = NoLine
    /\ text = <<>>
    /\ heap0 = <<>>
    /\ heap = <<>>
    /\ blastlines = <<>>
    /\ clusters = <<>>
    /\ chained_hsps = <<>>
    /\ best_score = <<>>
    /\ pairs = <<>>
    /\ report = NoReport
    /\ stdout = <<>>
    /\ eager_hits = NoHits
    /\ stream_hits = NoHits
    /\ swapped = <<>>
    /\ mirror = NoLine
    /\ back = <<>>

InitParse ==
    /\ InitCommon
    /\ sline \in ParseLines
    /\ fp = <<>>
    /\ data = <<>>

\* b = BlastLine(sline)
Parse ==
    /\ pc = "start"
    /\ cmd.name = "none"
    /\ sline # <<>>
    /\ \E r \in {BlastLine(sline)} :
           /\ bline' = r.rec
           /\ err' = r.err
           /\ pc' = IF r.ok THEN "parsed" ELSE "error"
    /\ cmd' = [name |-> "BlastLine"]
    /\ UNCHANGED <<sline, text, fp, hitsVars, swapVars, chainVars, cscoreVars, pairsVars,
                   stdout>>

\* str(b)
Str ==
    /\ pc = "parsed"
    /\ text' = BlastLine_str(bline)
    /\ pc' = "printed"
    /\ UNCHANGED <<err, cmd, sline, bline, fp, hitsVars, swapVars, chainVars, cscoreVars,
                   pairsVars, stdout>>

NextParse == Parse \/ Str

SpecParse == InitParse /\ [][NextParse]_vars

\* s = b.swapped
Swapped ==
    /\ pc = "parsed"
    /\ swapped' = BlastLine_swapped(bline)
    /\ pc' = "swapped"
    /\ UNCHANGED <<err, cmd, sline, bline, text, fp, hitsVars, mirror, back, chainVars,
                   cscoreVars, pairsVars, stdout>>

\* m = BlastLine(s)
ParseSwapped ==
    /\ pc = "swapped"
    /\ \E r \in {BlastLine(swapped)} :
           /\ mirror' = r.rec
           /\ err' = r.err
           /\ pc' = IF r.ok THEN "mirrored" ELSE "error"
    /\ UNCHANGED <<cmd, sline, bline, text, fp, hitsVars, swapped, back, chainVars,
                   cscoreVars, pairsVars, stdout>>

\* m.swapped
SwappedBack ==
    /\ pc = "mirrored"
    /\ back' = BlastLine_swapped(mirror)
    /\ pc' = "restored"
    /\ UNCHANGED <<err, cmd, sline, bline, text, fp, hitsVars, swapped, mirror, chainVars,
                   cscoreVars, pairsVars, stdout>>

NextSwap == Parse \/ Swapped \/ ParseSwapped \/ SwappedBack

SpecSwap == InitParse /\ [][NextSwap]_vars

(***************************************************************************)
(* Chaining: BlastSlow, chain_HSPs and the chain command                   *)
(***************************************************************************)

\* One row to build a BlastLine from, or a file of rows to load.
InitRows ==
    /\ InitCommon
    /\ data = <<>>
    /\ \/ sline \in RowTexts /\ fp = <<>>
       \/ sline = <<>> /\ fp \in Files(StoreLines) \ {<<>>}

InitChain ==
    /\ InitCommon
    /\ sline = <<>>
    /\ fp \in Files(ChainLines)
    /\ data = <<>>

\* blast = BlastSlow(blastfile)
Load ==
    /\ pc = "start"
    /\ \E r \in {BlastSlow(fp, FALSE)} :
           /\ heap0' = r.objs
           /\ heap' = r.objs
           /\ blastlines' = r.list
           /\ err' = r.err
           /\ pc' = IF r.ok THEN "loaded" ELSE "error"
    /\ cmd' = [name |-> "BlastSlow"]
    /\ UNCHANGED <<sline, bline, text, fp, hitsVars, swapVars, clusters, chained_hsps,
                   cscoreVars, pairsVars,
                   stdout>>

\* chain_HSPs(blast, xdist, ydist) on a loaded file
ChainHSPs(xdist, ydist) ==
    /\ pc = "loaded"
    /\ cmd' = [name |-> "chain_HSPs", xdist |-> xdist, ydist |-> ydist]
    /\ \E sets \in {Grouper_sets(ChainClusters(heap, blastlines, xdist, ydist))} :
       \E cs \in Orders(sets) :
       \E r \in {chain_HSPs(heap, blastlines, cs, xdist, ydist)} :
          /\ heap' = r.heap
          /\ blastlines' = r.blastlines
          /\ clusters' = r.clusters
          /\ chained_hsps' = r.chained_hsps
          /\ err' = r.err
          /\ pc' = IF r.err = "" THEN "chained" ELSE "error"
    /\ UNCHANGED <<sline, bline, text, fp, hitsVars, swapVars, heap0, cscoreVars, pairsVars,
                   stdout>>

\* chain(args) with --dist: assert dist > 0, load the file, chain the HSPs
\* with xdist = ydist = dist and print them.
Chain(dist) ==
    /\ pc = "start"
    /\ cmd' = [name |-> "chain", xdist |-> dist, ydist |-> dist]
    /\ IF ~(dist > 0)
       THEN /\ err' = "AssertionError"
            /\ pc' = "error"
            /\ UNCHANGED <<heap0, heap, blastlines, clusters, chained_hsps, stdout>>
       ELSE \E blast \in {BlastSlow(fp, FALSE)} :
          IF ~blast.ok
          THEN /\ err' = blast.err
               /\ pc' = "error"
               /\ UNCHANGED <<heap0, heap, blastlines, clusters, chained_hsps, stdout>>
          ELSE \E sets \in {Grouper_sets(ChainClusters(blast.objs, blast.list, dist, dist))} :
               \E cs \in Orders(sets) :
               \E r \in {chain_HSPs(blast.objs, blast.list, cs, dist, dist)} :
                  /\ heap0' = blast.objs
                  /\ heap' = r.heap
                  /\ blastlines' = r.blastlines
                  /\ clusters' = r.clusters
                  /\ chained_hsps' = r.chained_hsps
                  /\ err' = r.err
                  /\ pc' = IF r.err = "" THEN "printed" ELSE "error"
                  /\ stdout' = IF r.err = "" THEN
                                  [i \in 1..Len(r.chained_hsps) |->
                                     BlastLine_str(r.heap[r.chained_hsps[i]]) \o <<"\n">>]
                               ELSE <<>>
    /\ UNCHANGED <<sline, bline, text, fp, hitsVars, swapVars, cscoreVars, pairsVars>>

NextChain ==
    \/ Load
    \/ \E xdist \in Dists, ydist \in Dists : ChainHSPs(xdist, ydist)
    \/ \E dist \in DistOptions : Chain(dist)

SpecChain == InitChain /\ [][NextChain]_vars

\* combine_HSPs on clusters whose scores are not whole numbers.
InitMerge ==
    /\ InitCommon
    /\ sline = <<>>
    /\ fp \in Files(MergeLines)
    /\ data = <<>>

NextMerge ==
    \/ Load
    \/ \E xdist \in Dists, ydist \in Dists : ChainHSPs(xdist, ydist)

SpecMerge == InitMerge /\ [][NextMerge]_vars

\* BlastLine and BlastSlow on rows of which some are malformed.
NextRows ==
    \/ Parse
    \/ Str
    \/ Load

SpecRows == InitRows /\ [][NextRows]_vars

\* The same calls with thresholds that are not positive.
NextThresholds ==
    \/ Load
    \/ \E t \in BadThresholds : ChainHSPs(t[1], t[2])
    \/ \E dist \in BadDistOptions : Chain(dist)

SpecThresholds == InitChain /\ [][NextThresholds]_vars

(***************************************************************************)
(* iter_hits of the two stores                                             *)
(***************************************************************************)

InitHits ==
    /\ InitCommon
    /\ sline = <<>>
    /\ fp \in Files(HitsLines)
    /\ data = <<>>

\* hits = blast.iter_hits(), blast being the BlastSlow loaded: the generator
\* is made, and nothing of it has run.  inorder tells that no group has
\* been asked for before the one before it was read to its end.
EagerIter ==
    /\ pc = "loaded"
    /\ eager_hits = NoHits
    /\ eager_hits' = [name |-> "iter", gb |-> NewGroupby, hits |-> <<>>, done |-> FALSE,
                      inorder |-> TRUE]
    /\ UNCHANGED <<pc, err, cmd, sline, bline, text, fp, stream_hits, swapVars, chainVars,
                   cscoreVars, pairsVars, stdout>>

\* query, blines = next(hits): the generator runs to its next yield, or to
\* its end.  The group it hands out has not been read.
EagerNext ==
    /\ eager_hits.name = "iter"
    /\ ~eager_hits.done
    /\ \E r \in {groupby_next(eager_hits.gb, BlastSlow_source(heap, blastlines))} :
          eager_hits' =
              [eager_hits EXCEPT
                  !.gb = r.gb,
                  !.done = r.out # "group",
                  !.inorder = @ /\ (eager_hits.hits = <<>>
                                    \/ eager_hits.hits[Len(eager_hits.hits)].ended),
                  !.hits = IF r.out = "group"
                           THEN Append(@, [query |-> r.gb.tgtkey[1], blines |-> <<>>,
                                           ended |-> FALSE])
                           ELSE @]
    /\ UNCHANGED <<pc, err, cmd, sline, bline, text, fp, stream_hits, swapVars, chainVars,
                   cscoreVars, pairsVars, stdout>>

\* b = next(blines), blines being the group handed out last, before the
\* next one is asked for: a hit of the group, or its end.
EagerRead ==
    /\ eager_hits.name = "iter"
    /\ ~eager_hits.done
    /\ eager_hits.hits # <<>>
    /\ \E g \in {Len(eager_hits.hits)} :
          /\ ~eager_hits.hits[g].ended
          /\ \E r \in {grouper_next(eager_hits.gb, BlastSlow_source(heap, blastlines),
                                    <<eager_hits.hits[g].query>>)} :
                eager_hits' =
                    [eager_hits EXCEPT
                        !.gb = r.gb,
                        !.hits[g].blines = IF r.out = "item" THEN Append(@, r.x) ELSE @,
                        !.hits[g].ended = r.out # "item"]
    /\ UNCHANGED <<pc, err, cmd, sline, bline, text, fp, stream_hits, swapVars, chainVars,
                   cscoreVars, pairsVars, stdout>>

\* The eager store has been read through, each group to its end before the
\* next was asked for.
EagerReadThrough ==
    /\ eager_hits.name = "iter"
    /\ eager_hits.done
    /\ eager_hits.inorder

\* blast = Blast(blastfile); hits = blast.iter_hits(): the file is opened
\* and the generator made.  gb.it is the place of the handle blast.fp in
\* the file; alone tells that nothing but the generator has read from it.
\* The two stores share nothing: the streaming one is taken up when the
\* file cannot be loaded, or once the eager one has been read through.
StreamOpen ==
    /\ (pc = "error" /\ cmd.name = "BlastSlow") \/ (pc = "loaded" /\ EagerReadThrough)
    /\ stream_hits = NoHits
    /\ stream_hits' = [name |-> "iter", gb |-> NewGroupby, hits |-> <<>>, done |-> FALSE,
                       err |-> "", alone |-> TRUE]
    /\ UNCHANGED <<pc, err, cmd, sline, bline, text, fp, eager_hits, swapVars, chainVars,
                   cscoreVars, pairsVars, stdout>>

\* query, blines = next(hits): the generator runs to its next yield, to
\* its end, or to the row that fails.
StreamNext ==
    /\ stream_hits.name = "iter"
    /\ ~stream_hits.done
    /\ \E r \in {Blast_iter_hits(stream_hits.gb, fp)} :
          stream_hits' =
              [stream_hits EXCEPT
                  !.gb = r.gb,
                  !.done = r.out # "group",
                  !.err = r.err,
                  !.hits = @ \o r.hit]
    /\ UNCHANGED <<pc, err, cmd, sline, bline, text, fp, eager_hits, swapVars, chainVars,
                   cscoreVars, pairsVars, stdout>>

\* next(blast.fp) by the caller between two groups, as iter_line does on
\* the same handle: the row goes to the caller, and the generator never
\* sees it.
HandleRead ==
    /\ stream_hits.name = "iter"
    /\ ~stream_hits.done
    /\ stream_hits.gb.it < Len(fp)
    /\ stream_hits' = [stream_hits EXCEPT !.gb.it = @ + 1, !.alone = FALSE]
    /\ UNCHANGED <<pc, err, cmd, sline, bline, text, fp, eager_hits, swapVars, chainVars,
                   cscoreVars, pairsVars, stdout>>

\* sort([blastfile]) with the options opts, as best(args) calls it before
\* it opens the file: the file is rewritten in the order of the key, or the
\* call ends with the error of sort_key and the file is as it was.  The
\* eager store holds its own objects and is not touched.  The call is
\* taken up before the file is loaded, or where the streaming store would
\* be opened, and not while a handle is open on the file.
Sort(opts) ==
    /\ stream_hits = NoHits
    /\ \/ pc = "start"
       \/ pc = "error" /\ cmd.name = "BlastSlow"
       \/ pc = "loaded" /\ EagerReadThrough
    /\ \E key \in {sort_key(opts)} :
          IF key.err # ""
          THEN /\ pc' = "error"
               /\ err' = key.err
               /\ cmd' = [name |-> "sort"]
               /\ fp' = fp
          ELSE /\ fp' = sort_command(fp, key.keys)
               /\ UNCHANGED <<pc, err, cmd>>
    /\ UNCHANGED <<sline, bline, text, hitsVars, swapVars, chainVars, cscoreVars, pairsVars,
                   stdout>>

NextHits ==
    \/ Load
    \/ \E opts \in SortOptions : Sort(opts)
    \/ EagerIter
    \/ EagerNext
    \/ EagerRead
    \/ StreamOpen
    \/ StreamNext
    \/ HandleRead

SpecHits == InitHits /\ [][NextHits]_vars

(***************************************************************************)
(* The cscore command                                                      *)
(***************************************************************************)

InitCscore ==
    /\ InitCommon
    /\ sline = <<>>
    /\ fp \in Files(CscoreLines)
    /\ data = <<>>

\* cscore([blastfile, "--cutoff", cutoff])
Cscore(cutoff) ==
    /\ pc = "start"
    /\ cmd' = [name |-> "cscore", cutoff |-> cutoff]
    /\ \E r \in {cscore(fp, cutoff)} :
          /\ best_score' = r.best_score
          /\ pairs' = r.pairs
          /\ stdout' = r.stdout
          /\ err' = r.err
          /\ pc' = IF r.err = "" THEN "printed" ELSE "error"
    /\ UNCHANGED <<sline, bline, text, fp, hitsVars, swapVars, chainVars, pairsVars>>

NextCscore == \E cutoff \in Cutoffs : Cscore(cutoff)

SpecCscore == InitCscore /\ [][NextCscore]_vars

(***************************************************************************)
(* report_pairs                                                            *)
(***************************************************************************)

InitPairs ==
    /\ InitCommon
    /\ sline = <<>>
    /\ fp = <<>>
    /\ data \in FeatureLists

\* report_pairs(data, cutoff, mateorientation, pairsfile, rclip=rclip,
\* bins=bins, distmode=distmode)
ReportPairs(cutoff, mateorientation, rclip, bins, distmode) ==
    /\ pc = "start"
    /\ cmd' = [name |-> "report_pairs", cutoff |-> cutoff,
                mateorientation |-> mateorientation, rclip |-> rclip, bins |-> bins,
                distmode |-> distmode]
    /\ \E r \in {report_pairs(data, cutoff, mateorientation, rclip, bins, distmode)} :
          /\ data' = r.data
          /\ report' = r
          /\ err' = r.err
          /\ pc' = IF r.err = "" THEN "reported" ELSE "error"
    /\ UNCHANGED <<sline, bline, text, fp, hitsVars, swapVars, chainVars, cscoreVars, stdout>>

NextPairs ==
    \E cutoff \in CutoffOptions, mateorientation \in MateOrientations,
       rclip \in RClips, bins \in BinSizes, distmode \in DistModes :
        ReportPairs(cutoff, mateorientation, rclip, bins, distmode)

SpecPairs == InitPairs /\ [][NextPairs]_vars

(***************************************************************************)
(* Properties of report_pairs                                              *)
(***************************************************************************)

\* report_pairs has estimated its cutoff in this state.
Estimated ==
    /\ cmd.name = "report_pairs"
    /\ cmd.cutoff <= 0
    /\ report.all_dist # <<>>

\* C10: with no cutoff given, the cutoff used is twice the median of the
\* retained distances rounded up to the next multiple of the bin size.
C10_CutoffRoundedUp ==
    Estimated =>
        \A m2 \in {TwiceMedian(SortInts([i \in 1..Len(report.all_dist) |->
                                            report.all_dist[i].dist]))} :
            report.cutoff = ((m2 + cmd.bins - 1) \div cmd.bins) * cmd.bins

(***************************************************************************)
(* Properties of cscore                                                    *)
(***************************************************************************)

\* cscore has run to its end in this state.
Scored == cmd.name = "cscore" /\ pc = "printed"

\* The ids of the rows, and the rows an id is the query or the subject of.
IdsOf(rows) == {rows[i].query : i \in DOMAIN rows} \cup {rows[i].subject : i \in DOMAIN rows}

HitsOf(rows, id) == {i \in DOMAIN rows : rows[i].query = id \/ rows[i].subject = id}

\* The rows of a pair.
HitsOfPair(rows, pair) == {i \in DOMAIN rows : <<rows[i].query, rows[i].subject>> = pair}

\* The greatest of a set of numbers that is not empty.
Greatest(S) == (CHOOSE it \in {x \in S : \A y \in S : ~FLess(x, y)} : TRUE)

\* The c-score of the row b against the best scores cscore has registered.
CScore(b) == FDiv(b.score, FMax(best_score[b.query], best_score[b.subject]))

\* The pair a printed line names, and its third column.
PrintedPair(line) == (CHOOSE it \in {<<cols[1], cols[2]>> : cols \in {Split(line, "\t")}} : TRUE)

PrintedScore(line) == (CHOOSE it \in {Strip(cols[3]) : cols \in {Split(line, "\t")}} : TRUE)

\* Every pair cscore has retained has a c-score c with 0 < c <= 1.
EmittedInBounds ==
    \A pair \in DOMAIN pairs :
        FLess(FZero, pairs[pair]) /\ ~FLess(FromInt(1), pairs[pair])

\* The c-score of the row b is 1, and its pair is retained and printed with
\* it whenever 1 is above the cutoff.
YieldsOne(b) ==
    /\ CScore(b) = FromInt(1)
    /\ FLess(cmd.cutoff, FromInt(1)) =>
          \E pair \in {<<b.query, b.subject>>} :
              /\ pair \in DOMAIN pairs
              /\ pairs[pair] = FromInt(1)
              /\ \E k \in DOMAIN stdout :
                    /\ PrintedPair(stdout[k]) = pair
                    /\ PrintedScore(stdout[k]) = <<"1", ".", "0", "0">>

\* The row b has the best score of both its query and its subject.
BestOfBoth(b) == b.score = best_score[b.query] /\ b.score = best_score[b.subject]

\* cscore has ended at the division of its second loop in this state.
DividedByZero == cmd.name = "cscore" /\ pc = "error" /\ err = "ZeroDivisionError"

\* C7: for every file and every cutoff, every pair cscore emits has
\* 0 < c <= 1, and a hit whose score is the best score of both its query and
\* its subject yields c = 1.
C7_AnyCutoff ==
    /\ Scored => EmittedInBounds
    /\ (Scored \/ DividedByZero) =>
          \A rows \in {iter_line(fp).rows} :
              \A i \in DOMAIN rows : BestOfBoth(rows[i]) => YieldsOne(rows[i])

\* cscore on the one hit of C on B, whose score is 0: the best score of
\* both is the 0.0 best_score starts from, and the division fails.
LoneZeroHit ==
    /\ DividedByZero
    /\ fp = <<ScoreLine(C, B, 0)>>
    /\ best_score[C] = FZero
    /\ best_score[B] = FZero
    /\ BestOfBoth(iter_line(fp).rows[1])
    /\ stdout = <<>>

\* For the cutoffs that are not negative every pair cscore emits has
\* 0 < c <= 1, and when cscore runs to its end a hit whose score is the best
\* score of both its query and its subject, and is a positive number, yields
\* c = 1.
InBoundsFromCutoffZero ==
    (Scored /\ ~FLess(cmd.cutoff, FZero)) =>
        /\ EmittedInBounds
        /\ \A rows \in {iter_line(fp).rows} :
              \A i \in DOMAIN rows :
                  (BestOfBoth(rows[i]) /\ rows[i].score.k = "fin") => YieldsOne(rows[i])

\* A hit of score 0 is emitted under a negative cutoff, with 0.00.
ZeroEmitted ==
    /\ Scored
    /\ FLess(cmd.cutoff, FZero)
    /\ \E pair \in DOMAIN pairs : pairs[pair] = FZero

\* A hit of score inf has the best score of both its ids, and is not
\* emitted: its c-score is nan.
InfNotEmitted ==
    /\ Scored
    /\ \E rows \in {iter_line(fp).rows} :
          \E i \in DOMAIN rows :
              /\ rows[i].score.k = "inf"
              /\ BestOfBoth(rows[i])
              /\ CScore(rows[i]).k = "nan"
              /\ <<rows[i].query, rows[i].subject>> \notin DOMAIN pairs

\* C8: when the first loop has read all rows, the best score of an id is
\* the greatest score of the hits it is the query or the subject of, and the
\* output does not depend on the order of the rows.
C8_BestIsMax ==
    Scored =>
        \A rows \in {iter_line(fp).rows} :
            /\ DOMAIN best_score = IdsOf(rows)
            /\ \A id \in IdsOf(rows) :
                  best_score[id] = Greatest({rows[i].score : i \in HitsOf(rows, id)})
            /\ \A o \in Orders(DOMAIN fp) :
                  cscore([i \in DOMAIN fp |-> fp[o[i]]], cmd.cutoff).stdout = stdout

\* C9: a pair is emitted exactly when one of its hits has a c-score above
\* the cutoff, once, with the greatest c-score of its hits, and the lines
\* are in the order of (query, subject).
C9_PairsRetained ==
    Scored =>
        \A rows \in {iter_line(fp).rows} :
            /\ DOMAIN pairs = {<<rows[i].query, rows[i].subject>> :
                                 i \in {j \in DOMAIN rows : FLess(cmd.cutoff, CScore(rows[j]))}}
            /\ \A pair \in DOMAIN pairs :
                  pairs[pair] = Greatest({CScore(rows[i]) : i \in HitsOfPair(rows, pair)})
            /\ Len(stdout) = Cardinality(DOMAIN pairs)
            /\ \A k \in DOMAIN stdout :
                  /\ PrintedPair(stdout[k]) \in DOMAIN pairs
                  /\ PrintedScore(stdout[k]) = Format2f(pairs[PrintedPair(stdout[k])])
                  /\ k > 1 => CmpKey(PairKey(PrintedPair(stdout[k - 1])),
                                     PairKey(PrintedPair(stdout[k]))) < 0

(***************************************************************************)
(* Properties of the chaining                                              *)
(***************************************************************************)

\* chain_HSPs has built its clusters in this state.
Clustered == cmd.name \in {"chain_HSPs", "chain"} /\ heap0 # <<>>

\* chain_HSPs has returned in this state.
Chained == pc = "chained" \/ (pc = "printed" /\ cmd.name = "chain")

\* The reference graph on the records as parsed: an edge joins two records
\* of the same query, subject and orientation whose distances on both axes
\* are within the thresholds of the call.
RefLinked(i, j) ==
    /\ heap0[i].query = heap0[j].query
    /\ heap0[i].subject = heap0[j].subject
    /\ heap0[i].orientation = heap0[j].orientation
    /\ get_distance(heap0[i], heap0[j], TRUE) <= cmd.xdist
    /\ get_distance(heap0[i], heap0[j], FALSE) <= cmd.ydist

\* The records a chain of edges connects to one of S.
RECURSIVE Expand(_)
Expand(S) ==
    (CHOOSE it \in {IF T = S THEN S ELSE Expand(T)
         : T \in {S \cup {j \in DOMAIN heap0 : \E i \in S : RefLinked(i, j)}}} : TRUE)

\* The clusters holding the record i.
ClustersOf(i) == {k \in DOMAIN clusters : i \in Range(clusters[k])}

\* C1: the clusters of chain_HSPs are the connected components of the
\* reference graph: every record is in exactly one cluster, once, and a
\* cluster holds exactly the records a chain of linked pairs connects to its
\* first record.
C1_ConnectedComponents ==
    Clustered =>
        /\ \A i \in DOMAIN heap0 : Cardinality(ClustersOf(i)) = 1
        /\ \A k \in DOMAIN clusters :
              /\ Len(clusters[k]) = Cardinality(Range(clusters[k]))
              /\ Range(clusters[k]) = Expand({clusters[k][1]})

\* Three records come out as one cluster whose ends only the middle one
\* connects.
C1_Witness ==
    /\ pc = "chained"
    /\ \E k \in DOMAIN clusters :
          /\ Len(clusters[k]) = 3
          /\ \E i, j \in Range(clusters[k]) : i # j /\ ~RefLinked(i, j)

\* C2: the members of a cluster share query, subject and orientation, no
\* assertion of combine_HSPs fails, and two records of opposite orientation
\* are never in one cluster; a record on its own comes out with its fields
\* as parsed.
C2_ClustersHomogeneous ==
    Clustered =>
        /\ err # "AssertionError"
        /\ \A k \in DOMAIN clusters : \A i, j \in Range(clusters[k]) :
              /\ heap0[i].query = heap0[j].query
              /\ heap0[i].subject = heap0[j].subject
              /\ heap0[i].orientation = heap0[j].orientation
        /\ \A i, j \in DOMAIN heap0 :
              heap0[i].orientation # heap0[j].orientation => ClustersOf(i) # ClustersOf(j)
        /\ Chained =>
              /\ Len(chained_hsps) = Len(clusters)
              /\ \A k \in DOMAIN clusters :
                    /\ clusters[k][1] \in Range(chained_hsps)
                    /\ Len(clusters[k]) = 1 => heap[clusters[k][1]] = heap0[clusters[k][1]]

\* Two hits of one query on one subject, overlapping on both axes, on
\* opposite strands: two records come out, unchanged.
C2_Witness ==
    /\ pc = "printed"
    /\ Len(fp) = 2
    /\ heap0[1].query = heap0[2].query
    /\ heap0[1].subject = heap0[2].subject
    /\ heap0[1].orientation # heap0[2].orientation
    /\ get_distance(heap0[1], heap0[2], TRUE) <= cmd.xdist
    /\ get_distance(heap0[1], heap0[2], FALSE) <= cmd.ydist
    /\ Len(stdout) = 2
    /\ heap = heap0

\* The sum of the field f of the records ids, as parsed.
RECURSIVE SumInt(_, _)
SumInt(ids, f) ==
    IF ids = {} THEN 0
    ELSE (CHOOSE it \in {heap0[i][f] + SumInt(ids \ {i}, f) : i \in {SetMin(ids)}} : TRUE)

\* The scores of the records ids added up in the order given, as
\* combine_HSPs adds them: the first, then each of the others to the sum.
RECURSIVE ScoreInOrder(_, _, _)
ScoreInOrder(ids, i, acc) ==
    IF i > Len(ids) THEN acc
    ELSE (CHOOSE it \in {ScoreInOrder(ids, j, sum) :
                j \in {i + 1}, sum \in {FAdd(acc, heap0[ids[i]].score)}} : TRUE)

ScoreSum(ids) == ScoreInOrder(ids, 2, heap0[ids[1]].score)

\* The scores of the records ids are whole numbers below 2^28 in size: the
\* sizes of at most 2^25 of them add up to less than 2^53.
WholeScores(ids) == \A i \in ids : IsSmall(heap0[i].score)

RECURSIVE SumWhole(_)
SumWhole(ids) ==
    IF ids = {} THEN 0
    ELSE (CHOOSE it \in {SmallInt(heap0[i].score) + SumWhole(ids \ {i}) : i \in {SetMin(ids)}} : TRUE)

\* The integer fields of the record m are the sums over the records ids.
IntSums(m, ids) ==
    /\ m.hitlen = SumInt(ids, "hitlen")
    /\ m.nmismatch = SumInt(ids, "nmismatch")
    /\ m.ngaps = SumInt(ids, "ngaps")

\* C3 as stated: the record combine_HSPs returns for a cluster has hitlen,
\* nmismatch, ngaps and score equal to the sums over the members as parsed,
\* and the same for every order of the members.
C3_MergeAdditive ==
    Chained =>
        \A k \in DOMAIN clusters :
            \A m \in {heap[clusters[k][1]]}, ids \in {Range(clusters[k])} :
                /\ IntSums(m, ids)
                /\ \A order \in Orders(ids) : m.score = ScoreSum(order)

\* C3, amended: hitlen, nmismatch and ngaps are the sums over the members
\* as parsed, whatever the order; the score is the floating-point sum of the
\* members' scores in the order of the cluster, which is their sum, whatever
\* the order, when the scores are whole numbers whose sizes add up to less
\* than 2^53 (here: whole numbers below 2^28 in size).
C3_MergeAdditiveInOrder ==
    Chained =>
        \A k \in DOMAIN clusters :
            \A m \in {heap[clusters[k][1]]}, ids \in {Range(clusters[k])} :
                /\ IntSums(m, ids)
                /\ m.score = ScoreSum(clusters[k])
                /\ WholeScores(ids) =>
                       /\ m.score = FromInt(SumWhole(ids))
                       /\ \A order \in Orders(ids) : m.score = ScoreSum(order)

\* Three records of different hitlen, nmismatch, ngaps and score merged
\* into one, the first of them not the first line of the file, their scores
\* adding up to another float in another order.
C3_Witness ==
    /\ pc = "chained"
    /\ \E k \in DOMAIN clusters :
          /\ Len(clusters[k]) = 3
          /\ clusters[k][1] # 1
          /\ heap[clusters[k][1]].hitlen = 35
          /\ heap[clusters[k][1]].nmismatch = 3
          /\ heap[clusters[k][1]].ngaps = 3
          /\ heap[clusters[k][1]].score = ScoreSum(clusters[k])
          /\ \E order \in Orders(Range(clusters[k])) :
                 ScoreSum(order) # heap[clusters[k][1]].score

\* C4: no record is changed after it is parsed: when chain_HSPs has
\* returned, every record has the field values it was parsed with.
C4_NeverMutated ==
    Chained => \A i \in DOMAIN heap0 : heap[i] = heap0[i]

(***************************************************************************)
(* Properties of BlastLine                                                 *)
(***************************************************************************)

\* The value of column i written as the text t: the identifier itself, the
\* integer or the number.
ColumnValue(i, t) ==
    IF i \in IntColumns THEN PyInt(t).v
    ELSE IF i \in FloatColumns THEN PyFloat(t).v
    ELSE t

\* The columns of str(BlastLine(line)) are twelve, and each of them has the
\* value of the same column of the line, the subject coordinates in the
\* order the line had them.
SameColumns(orig, out) ==
    /\ Len(out) = NumColumns
    /\ \A i \in 1..NumColumns :
          /\ Converts(i, out[i])
          /\ ColumnValue(i, out[i]) = ColumnValue(i, orig[i])

\* The significant digits of the number written as t: the digits of its
\* mantissa between the first and the last that are not 0.
MantissaOf(u) ==
    IF Places(u, "e") \cup Places(u, "E") = {} THEN u
    ELSE Take(u, SetMin(Places(u, "e") \cup Places(u, "E")) - 1)

SignificantDigits(t) == Len(Significant(SelectSeq(MantissaOf(Strip(t)), IsDigit)).ds)

\* C5 as stated: str(BlastLine(line)) gives back the column values of every
\* well-formed line.
C5_RoundTrip ==
    pc = "printed" => SameColumns(Split(sline, "\t"), Split(text, "\t"))

\* C5, amended: str(BlastLine(line)) gives back the column values of every
\* well-formed line whose pctid, evalue and score are written with at
\* most twelve significant digits.
C5_RoundTripTwelve ==
    pc = "printed" =>
        \A orig \in {Split(sline, "\t")} :
            (\A i \in FloatColumns : SignificantDigits(orig[i]) <= StrPrecision)
                => SameColumns(orig, Split(text, "\t"))

\* A line on the minus strand comes back with its subject coordinates in
\* descending order, in a text that differs from the line (a number is
\* written in another way).
C5_Witness ==
    /\ pc = "printed"
    /\ bline.orientation = "-"
    /\ text # sline
    /\ \E out \in {Split(text, "\t")} : PyInt(out[9]).v > PyInt(out[10]).v

\* C6: a parsed BlastLine has sstart <= sstop, its orientation is "-" exactly
\* when the line had subject start > subject stop and "+" otherwise, its
\* subject coordinates are those of the line, and its query coordinates are
\* stored as written.
C6_Normalized ==
    pc \in {"parsed", "printed"} =>
        \A orig \in {Split(sline, "\t")} :
        \A s1 \in {PyInt(orig[9]).v}, s2 \in {PyInt(orig[10]).v} :
            /\ bline.sstart <= bline.sstop
            /\ bline.orientation = (IF s1 > s2 THEN "-" ELSE "+")
            /\ {bline.sstart, bline.sstop} = {s1, s2}
            /\ bline.qstart = PyInt(orig[7]).v
            /\ bline.qstop = PyInt(orig[8]).v

\* A line with both pairs of coordinates in descending order: the subject
\* pair is put in order, the query pair is not.
C6_Witness ==
    /\ pc = "parsed"
    /\ bline.orientation = "-"
    /\ bline.sstart < bline.sstop
    /\ bline.qstart > bline.qstop

(***************************************************************************)
(* Properties of the linked pairs of report_pairs                          *)
(***************************************************************************)

\* report_pairs has gone through its second loop in this state.
Selected ==
    /\ cmd.name = "report_pairs"
    /\ report.err \in {"", "IndexError"}

\* The read features with the clipped name of x.
Mates(x) == {y \in Range(data) : ClipKey(y, cmd.rclip) = ClipKey(x, cmd.rclip)}

\* The pairs of positions of the sorted data that hold the two reads of a
\* name with exactly two reads.
MatePairs ==
    {p \in (1..Len(data)) \X (1..Len(data)) :
        /\ p[1] < p[2]
        /\ ClipKey(data[p[1]], cmd.rclip) = ClipKey(data[p[2]], cmd.rclip)
        /\ Cardinality(Mates(data[p[1]])) = 2}

\* The distance and the orientation of a pair of positions, with its names.
Measured(p) ==
    (CHOOSE it \in {[dist |-> rd.dist, orientation |-> rd.orientation,
          aquery |-> data[p[1]].accn, bquery |-> data[p[2]].accn]
         : rd \in {range_distance(FeatureRange(data[p[1]]), FeatureRange(data[p[2]]),
                                  cmd.distmode)}} : TRUE)

\* The pairs the four conditions select.
ShouldLink ==
    {x \in {Measured(p) : p \in MatePairs} :
        /\ x.dist >= 0
        /\ cmd.mateorientation # <<>> => x.orientation = cmd.mateorientation
        /\ x.dist <= report.cutoff}

RECURSIVE SumDist(_)
SumDist(S) ==
    IF S = {} THEN 0
    ELSE (CHOOSE it \in {x.dist + SumDist(S \ {x}) : x \in {CHOOSE y \in S : TRUE}} : TRUE)

\* C11: the linked pairs are exactly the pairs of a name with two reads whose
\* distance is not negative, whose orientation is the configured one when one
\* is configured, and whose distance is within the cutoff; the reads of the
\* other names are counted as fragments and the mean distance is that of the
\* linked pairs alone; a pair of another orientation is never linked.
C11_LinkedExactly ==
    Selected =>
        /\ Range(report.linked) = ShouldLink
        /\ Len(report.linked) = Cardinality(ShouldLink)
        /\ report.num_pairs = Cardinality(MatePairs)
        /\ report.num_fragments =
               Cardinality({i \in 1..Len(data) : Cardinality(Mates(data[i])) # 2})
        /\ report.err = "" =>
               report.stats.meandist = SumDist(ShouldLink) \div Cardinality(ShouldLink)
        /\ cmd.mateorientation # <<>> =>
               \A i \in 1..Len(report.linked) :
                   report.linked[i].orientation = cmd.mateorientation

\* Under the filter "-+" a pair is linked, and a pair of the orientation "+-"
\* whose distance is within the cutoff is not.
C11_Witness ==
    /\ Selected
    /\ report.err = ""
    /\ cmd.mateorientation = <<"-", "+">>
    /\ report.linked # <<>>
    /\ \E p \in MatePairs :
          /\ Measured(p).orientation = <<"+", "-">>
          /\ Measured(p).dist >= 0
          /\ Measured(p).dist <= report.cutoff
          /\ \A i \in 1..Len(report.linked) : report.linked[i].aquery # data[p[1]].accn

(***************************************************************************)
(* Properties of the output of chain_HSPs                                  *)
(***************************************************************************)

\* The sum of the scores, as parsed, of the members of the cluster whose
\* merged record is the object id, in the order of the cluster.
MemberScore(id) ==
    (CHOOSE it \in {ScoreSum(clusters[k]) : k \in {CHOOSE k \in DOMAIN clusters : clusters[k][1] = id}} : TRUE)

\* Every record chain_HSPs returns is the first member of a cluster, with
\* the sum of the scores of the members as its score.
MergedScores ==
    \A i \in 1..Len(chained_hsps) :
        /\ \E k \in DOMAIN clusters : clusters[k][1] = chained_hsps[i]
        /\ heap[chained_hsps[i]].score = MemberScore(chained_hsps[i])

\* x >= y: false for a nan.
FGreaterEq(x, y) == FLess(y, x) \/ FEq(x, y)

\* Of every two consecutive records returned, the earlier one has a score
\* greater than or equal to that of the later one.
Descending ==
    \A i \in 1..(Len(chained_hsps) - 1) :
        FGreaterEq(MemberScore(chained_hsps[i]), MemberScore(chained_hsps[i + 1]))

\* No record returned has a nan as its score.
NoNanScore == \A i \in 1..Len(chained_hsps) : heap[chained_hsps[i]].score.k # "nan"

\* C12 as claimed: the records chain_HSPs returns are in descending order of
\* score, the score of a merged record being the sum of the scores of its
\* members: of two consecutive records the earlier one has a score greater
\* than or equal to the later one's.
C12_DescendingScore == Chained => MergedScores /\ Descending

\* Where no record returned has a nan score the order is descending.
DescendingWithoutNan == Chained => MergedScores /\ (NoNanScore => Descending)

\* Three records come out, a nan score in the middle, and the first has a
\* smaller score than the last.
AscendingAroundNan ==
    /\ pc = "chained"
    /\ Len(chained_hsps) = 3
    /\ heap[chained_hsps[2]].score.k = "nan"
    /\ FLess(heap[chained_hsps[1]].score, heap[chained_hsps[3]].score)

(***************************************************************************)
(* Properties of the thresholds of the chaining                            *)
(***************************************************************************)

\* The chaining has been called with a threshold that is not positive.
BadCall ==
    /\ cmd.name \in {"chain_HSPs", "chain"}
    /\ cmd.xdist <= 0 \/ cmd.ydist <= 0

\* C13: a call of the chaining with xdist <= 0 or ydist <= 0, through the
\* chain command or through chain_HSPs itself, ends in an error and gives no
\* merged record.
C13_ThresholdsRejected ==
    BadCall =>
        /\ pc = "error"
        /\ err # ""
        /\ chained_hsps = <<>>
        /\ stdout = <<>>

(***************************************************************************)
(* Properties of malformed rows                                            *)
(***************************************************************************)

\* The columns of the line that hold numbers.
NumericColumns == 3..NumColumns

\* A text that is a number: what float() accepts.
IsNumber(t) == PyFloat(t).ok

\* A line with fewer than twelve columns, or with a numeric column that is
\* no number.
Malformed(line) ==
    \A args \in {Split(line, "\t")} :
        \/ Len(args) < NumColumns
        \/ \E i \in NumericColumns : ~IsNumber(args[i])

\* C14: BlastLine on a malformed line fails and leaves no record, and
\* BlastSlow on a file with such a line fails and leaves no store: no record
\* of that line, nor of the lines before it.
C14_MalformedRejected ==
    /\ (cmd.name = "BlastLine" /\ Malformed(sline)) =>
           /\ pc = "error"
           /\ err \in {"IndexError", "ValueError"}
           /\ bline = NoLine
           /\ text = <<>>
    /\ (cmd.name = "BlastSlow" /\ \E i \in 1..Len(fp) : Malformed(fp[i])) =>
           /\ pc = "error"
           /\ err \in {"IndexError", "ValueError"}
           /\ heap0 = <<>>
           /\ heap = <<>>
           /\ blastlines = <<>>

\* A file whose first row is well-formed and whose second row has a score
\* that is no number, its other columns being numbers: the load has failed.
C14_Witness ==
    /\ cmd.name = "BlastSlow"
    /\ pc = "error"
    /\ Len(fp) >= 2
    /\ ~Malformed(fp[1])
    /\ \E args \in {Split(fp[2], "\t")} :
          /\ Len(args) = NumColumns
          /\ \A i \in NumericColumns : IsNumber(args[i]) <=> i # NumColumns

(***************************************************************************)
(* Properties of iter_hits                                                 *)
(***************************************************************************)

\* The query of a row of the file, as written.
QueryText(line) == Split(line, "\t")[1]

QueryIds == {QueryText(fp[i]) : i \in 1..Len(fp)}

\* The rows of the query q.
RowsOf(q) == {i \in 1..Len(fp) : QueryText(fp[i]) = q}

\* The file is sorted by query.
SortedByQuery ==
    \A i \in 1..(Len(fp) - 1) :
        CmpNums(TextKey(QueryText(fp[i])), TextKey(QueryText(fp[i + 1]))) <= 0

\* The rows of every query follow one another in the file.
Contiguous ==
    \A q \in QueryIds : \A i \in SetMin(RowsOf(q))..SetMax(RowsOf(q)) : i \in RowsOf(q)

\* The eager generator has run to its end, whichever way its groups were
\* read.
EagerDone == eager_hits.name = "iter" /\ eager_hits.done

\* The streaming generator has run to its end or to its error.
StreamDone == stream_hits.name = "iter" /\ stream_hits.done

\* The same, and nothing but the generator has read from the handle.
StreamReadThrough == StreamDone /\ stream_hits.alone

\* The groups of h that carry the query q.
Yields(h, q) == {g \in 1..Len(h.hits) : h.hits[g].query = q}

\* The hits of the eager store are the objects it was loaded with; those of
\* the streaming store are the rows of the file, which sort(args) may have
\* put in another order since the eager store was loaded.  A hit of either
\* is told by its fields.
EagerHit(i) == heap0[i]

StreamHit(i) == BlastLine(fp[i]).rec

\* The rows the eager store was loaded with for the query q.
LoadedRowsOf(q) == {i \in 1..Len(heap0) : heap0[i].query = q}

\* The groups of the eager and of the streaming store, each with its query,
\* the set of its hits and their number.
EagerGroupSets ==
    {[query |-> eager_hits.hits[g].query,
      members |-> {EagerHit(i) : i \in Range(eager_hits.hits[g].blines)},
      n |-> Len(eager_hits.hits[g].blines)] : g \in 1..Len(eager_hits.hits)}

StreamGroupSets ==
    {[query |-> stream_hits.hits[g].query,
      members |-> {StreamHit(i) : i \in Range(stream_hits.hits[g].blines)},
      n |-> Len(stream_hits.hits[g].blines)] : g \in 1..Len(stream_hits.hits)}

\* The rows the groups of h hold.
RowsYielded(h) == UNION {Range(h.hits[g].blines) : g \in 1..Len(h.hits)}

\* The eager store has handed out each query of the file once.
EagerOnce ==
    /\ Len(eager_hits.hits) = Cardinality(QueryIds)
    /\ \A q \in QueryIds : Cardinality(Yields(eager_hits, q)) = 1

\* The eager store has handed out each query of the file once, with all its
\* rows: all those it was loaded with for the query, as many as the file
\* has.
EagerComplete ==
    /\ EagerOnce
    /\ \A g \in 1..Len(eager_hits.hits) :
          /\ Range(eager_hits.hits[g].blines) = LoadedRowsOf(eager_hits.hits[g].query)
          /\ Len(eager_hits.hits[g].blines) = Cardinality(RowsOf(eager_hits.hits[g].query))

\* S is a maximal run of consecutive rows of the query q.
IsRun(S, q) ==
    /\ S # {}
    /\ S = SetMin(S)..SetMax(S)
    /\ S \subseteq RowsOf(q)
    /\ SetMin(S) - 1 \notin RowsOf(q)
    /\ SetMax(S) + 1 \notin RowsOf(q)

\* Each group of the streaming store is a maximal run of rows of its query.
StreamRuns ==
    \A g \in 1..Len(stream_hits.hits) :
        /\ IsRun(Range(stream_hits.hits[g].blines), stream_hits.hits[g].query)
        /\ Len(stream_hits.hits[g].blines) = Cardinality(Range(stream_hits.hits[g].blines))

\* The two stores have handed out the same groups.
SameGroups ==
    /\ StreamGroupSets = EagerGroupSets
    /\ Len(stream_hits.hits) = Len(eager_hits.hits)

\* The streaming store has handed out some query more than once.
SplitsAQuery == \E q \in QueryIds : Cardinality(Yields(stream_hits, q)) > 1

\* The rows of the query q do not all follow one another.
Scattered(q) == \E i \in SetMin(RowsOf(q))..SetMax(RowsOf(q)) : i \notin RowsOf(q)

\* The rows that BlastLine rejects.
BadRows == {i \in 1..Len(fp) : Malformed(fp[i])}

\* The rows in front of the run that ends right before the row m.
BeforeRunAt(m) ==
    {i \in 1..(m - 1) : \E j \in i..(m - 1) : QueryText(fp[j]) # QueryText(fp[m - 1])}

\* C15 as stated: the eager store yields each query once with all its hits;
\* the streaming store yields the same groups when the file is sorted by
\* query, and when it is not sorted it yields a query more than once, each
\* time a run of its hits, with no error.
C15_GroupsAsStated ==
    /\ EagerDone => EagerComplete
    /\ StreamDone =>
          /\ (EagerDone /\ SortedByQuery) => SameGroups
          /\ ~SortedByQuery => SplitsAQuery /\ StreamRuns /\ stream_hits.err = ""

\* C15, amended: the eager store yields each query once, and with all its
\* hits when each group is read to its end before the next is asked for.
\* The streaming store, when nothing else reads its handle, yields maximal
\* runs of the hits of a query: the same groups as the eager store when the
\* hits of every query follow one another in the file (as they do in a
\* sorted file), and when those of some query do not, that query more than
\* once, with no error.  A row that BlastLine rejects leaves no eager store,
\* and ends the streaming store with the error of that row, after the runs
\* in front of the run that ends right before the row.
C15_SplitsWhenScattered ==
    /\ EagerDone => EagerOnce
    /\ (EagerDone /\ eager_hits.inorder) => EagerComplete
    /\ StreamReadThrough =>
          /\ StreamRuns
          /\ pc = "loaded" =>
                /\ BadRows = {}
                /\ stream_hits.err = ""
                /\ RowsYielded(stream_hits) = 1..Len(fp)
                /\ SortedByQuery => Contiguous
                /\ Contiguous => SameGroups
                /\ ~Contiguous => SplitsAQuery
                /\ \A q \in QueryIds : Cardinality(Yields(stream_hits, q)) > 1 <=> Scattered(q)
          /\ pc = "error" =>
                /\ BadRows # {}
                /\ eager_hits = NoHits
                /\ stream_hits.err \in {"IndexError", "ValueError"}
                /\ stream_hits.err = err
                /\ RowsYielded(stream_hits) = BeforeRunAt(SetMin(BadRows))

\* A file with a hit of another query between the two hits of a query, both
\* stores read through: the eager store has yielded that query once with
\* both hits, the streaming store twice with one each.
C15_Witness ==
    /\ EagerDone
    /\ eager_hits.inorder
    /\ StreamReadThrough
    /\ Len(fp) = 3
    /\ QueryText(fp[1]) = QueryText(fp[3])
    /\ QueryText(fp[1]) # QueryText(fp[2])
    /\ Len(eager_hits.hits) = 2
    /\ Len(stream_hits.hits) = 3
    /\ stream_hits.hits[1].query = stream_hits.hits[3].query

\* The eager store asked for its groups before any was read: each query
\* was yielded, with none of its hits.
UnreadGroups ==
    /\ EagerDone
    /\ Len(fp) >= 2
    /\ \A g \in 1..Len(eager_hits.hits) : eager_hits.hits[g].blines = <<>>

\* A row read from the handle between two groups of the streaming store is
\* in no group.
RowTaken ==
    /\ StreamDone
    /\ stream_hits.err = ""
    /\ stream_hits.hits # <<>>
    /\ RowsYielded(stream_hits) # 1..Len(fp)

\* The file B, A, A was loaded, sort(args) then put it in the order of the
\* queries, the better hit of A first, and the streaming store read it
\* through: it has yielded A with both its hits, then B, the groups of the
\* eager store.
SortedThenStreamed ==
    /\ EagerDone
    /\ eager_hits.inorder
    /\ StreamReadThrough
    /\ fp = <<ScoreLine(A, C, 70), ScoreLine(A, B, 50), ScoreLine(B, A, 30)>>
    /\ Len(heap0) = 3
    /\ EagerHit(1) = StreamHit(3)
    /\ EagerHit(2) = StreamHit(2)
    /\ EagerHit(3) = StreamHit(1)
    /\ stream_hits.hits = <<[query |-> A, blines |-> <<1, 2>>], [query |-> B, blines |-> <<3>>]>>
    /\ SameGroups

\* sort(args) with --coords alone has ended with the error of its unassigned
\* key.
SortKeyUnbound == pc = "error" /\ cmd.name = "sort" /\ err = "UnboundLocalError"

(***************************************************************************)
(* Properties of the swapped view                                          *)
(***************************************************************************)

\* C16: the record parsed from b.swapped has the query and the subject of b
\* exchanged and the orientation of b, and its own swapped view is the text
\* of b, for every record b.
C16_SwappedInvolution ==
    pc = "restored" =>
        /\ mirror.query = bline.subject
        /\ mirror.subject = bline.query
        /\ mirror.orientation = bline.orientation
        /\ back = BlastLine_str(bline)

====
